---- MODULE Spec2Model ----
(***************************************************************************)
(* mdxtractor: the section state machine of parseMarkdown (src/parser.ts)  *)
(* driven by the HTMLRewriter event stream, and the document assembly.     *)
(*                                                                         *)
(* Text is modelled as a sequence of one-character strings, so that trim,  *)
(* slugify and the two regular expressions are computed character by       *)
(* character.  An optional value (null / undefined in the source) is a     *)
(* sequence of length 0 or 1.                                               *)
(***************************************************************************)
EXTENDS Integers, Sequences, FiniteSets, TLC

(***************************************************************************)
(* Characters                                                              *)
(***************************************************************************)
LowerSeq == <<"a", "b", "c", "d", "e", "f", "g", "h", "i", "j", "k", "l", "m",
             "n", "o", "p", "q", "r", "s", "t", "u", "v", "w", "x", "y", "z">>
UpperSeq == <<"A", "B", "C", "D", "E", "F", "G", "H", "I", "J", "K", "L", "M",
             "N", "O", "P", "Q", "R", "S", "T", "U", "V", "W", "X", "Y", "Z">>
Lowers == {LowerSeq[i] : i \in 1..Len(LowerSeq)}
Uppers == {UpperSeq[i] : i \in 1..Len(UpperSeq)}
Numerals == {"0", "1", "2", "3", "4", "5", "6", "7", "8", "9"}
\* \w of a JavaScript regular expression
WordChars == Lowers \cup Uppers \cup Numerals \cup {"_"}
\* \s of a JavaScript regular expression, and what String.trim strips
Space == {" ", "\n"}
\* [a-z0-9] of slugify
SlugChars == Lowers \cup Numerals

SetMin(S) == CHOOSE x \in S : \A y \in S : x <= y
SetMax(S) == CHOOSE x \in S : \A y \in S : x >= y

\* Array.prototype.join
RECURSIVE Join(_, _)
Join(ss, sep) ==
  IF ss = <<>> THEN <<>>
  ELSE IF Len(ss) = 1 THEN Head(ss)
  ELSE Head(ss) \o sep \o Join(Tail(ss), sep)

\* String.prototype.repeat
RECURSIVE Repeat(_, _)
Repeat(s, n) == IF n <= 0 THEN <<>> ELSE s \o Repeat(s, n - 1)

\* String.prototype.trim
trim(s) ==
  LET keep == {i \in 1..Len(s) : s[i] \notin Space}
  IN IF keep = {} THEN <<>> ELSE SubSeq(s, SetMin(keep), SetMax(keep))

toLowerChar(c) ==
  IF c \in Uppers THEN LowerSeq[CHOOSE i \in 1..Len(UpperSeq) : UpperSeq[i] = c] ELSE c

\* String.prototype.toLowerCase
toLowerCase(s) == [i \in 1..Len(s) |-> toLowerChar(s[i])]

\* .replace(/[^a-z0-9]+/g, '-'): every maximal run outside [a-z0-9] becomes one '-'
RECURSIVE replaceRuns(_, _)
replaceRuns(s, inRun) ==
  IF s = <<>> THEN <<>>
  ELSE IF Head(s) \in SlugChars THEN <<Head(s)>> \o replaceRuns(Tail(s), FALSE)
  ELSE IF inRun THEN replaceRuns(Tail(s), TRUE)
  ELSE <<"-">> \o replaceRuns(Tail(s), TRUE)

\* .replace(/^-/, ''): only a leading '-' is removed
stripLeadingHyphen(s) == IF s # <<>> /\ Head(s) = "-" THEN Tail(s) ELSE s

\* .replace(/^-|-$/g, ''): one leading '-' and one trailing '-' are removed
stripEdgeHyphens(s) ==
  LET a == IF s # <<>> /\ Head(s) = "-" THEN Tail(s) ELSE s
  IN IF a # <<>> /\ a[Len(a)] = "-" THEN SubSeq(a, 1, Len(a) - 1) ELSE a

slugify(text) == stripEdgeHyphens(replaceRuns(toLowerCase(text), FALSE))

(***************************************************************************)
(* className.match(/language-(\w+)/)?.[1] ?? 'text'                        *)
(***************************************************************************)
LanguagePrefix == <<"l", "a", "n", "g", "u", "a", "g", "e", "-">>
DefaultLang == <<"t", "e", "x", "t">>

\* the end of the maximal run of word characters of s that starts at position p
WordRunEnd(s, p) ==
  SetMax({e \in p..Len(s) : \A i \in p..e : s[i] \in WordChars})

\* /language-(.+)/ in place of /language-(\w+)/, and no default
matchLanguageRest(attr) ==
  LET className == IF attr = <<>> THEN <<>> ELSE attr[1]
      n == Len(LanguagePrefix)
      hits == {p \in 1..Len(className) :
                 /\ p + n <= Len(className)
                 /\ SubSeq(className, p, p + n - 1) = LanguagePrefix}
  IN IF hits = {} THEN <<>>
     ELSE SubSeq(className, SetMin(hits) + n, Len(className))

\* attr is the class attribute: <<>> when absent, <<value>> when present
matchLanguage(attr) ==
  LET className == IF attr = <<>> THEN <<>> ELSE attr[1]
      n == Len(LanguagePrefix)
      hits == {p \in 1..Len(className) :
                 /\ p + n <= Len(className)
                 /\ SubSeq(className, p, p + n - 1) = LanguagePrefix
                 /\ className[p + n] \in WordChars}
  IN IF hits = {} THEN DefaultLang
     ELSE LET p == SetMin(hits)
          IN SubSeq(className, p + n, WordRunEnd(className, p + n))

(***************************************************************************)
(* code.match(/^\/\/\s*(.+\.\w+)\s*\n|^#\s*(.+\.\w+)\s*\n/)                *)
(* filenameMatch?.[1] ?? filenameMatch?.[2]                                *)
(***************************************************************************)
\* The matches of one alternative  marker \s* (.+ \. \w+) \s* \n  at the start
\* of code, as pairs <<a, d>>: a is the last position of the first \s* and d
\* the position of the dot.  \w+ then ends where the run of word characters
\* that follows the dot ends (a shorter \w+ is followed by a word character,
\* which neither \s* nor \n matches), and the white space after it must hold
\* a line feed.
SpaceRunEnd(s, p) ==
  SetMax({p - 1} \cup {e \in p..Len(s) : \A i \in p..e : s[i] \in Space})

branchMatches(code, marker) ==
  LET m == Len(marker)
      n == Len(code)
  IN IF n < m \/ SubSeq(code, 1, m) # marker THEN {}
     ELSE {t \in (m..n) \X (1..n) :
             LET a == t[1]
                 d == t[2]
             IN /\ \A i \in (m + 1)..a : code[i] \in Space
                /\ a + 2 <= d
                /\ \A i \in (a + 1)..(d - 1) : code[i] # "\n"
                /\ code[d] = "."
                /\ d + 1 <= n
                /\ code[d + 1] \in WordChars
                /\ LET e == WordRunEnd(code, d + 1)
                   IN \E k \in (e + 1)..SpaceRunEnd(code, e + 1) : code[k] = "\n"}

\* The backtracking order of the greedy quantifiers: the longest \s*, then the
\* longest .+
firstMatch(ms) ==
  CHOOSE t \in ms : \A u \in ms :
    \/ t[1] > u[1]
    \/ t[1] = u[1] /\ t[2] >= u[2]

\* <<>> when the expression does not match (filename undefined).  (The
\* matches of the alternative that applies are bound as a value, through a
\* set of one element, so that they are computed once.)
matchFilename(code) ==
  LET slash == branchMatches(code, <<"/", "/">>)
      hash == branchMatches(code, <<"#">>)
      name(t) == <<SubSeq(code, t[1] + 1, WordRunEnd(code, t[2] + 1))>>
  IN CHOOSE f \in {IF ms = {} THEN <<>> ELSE name(firstMatch(ms)) :
                     ms \in {IF slash # {} THEN slash ELSE hash}} : TRUE

(***************************************************************************)
(* formatTableMd                                                           *)
(***************************************************************************)
Bar == <<" ", "|", " ">>
Dashes == <<"-", "-", "-">>
TableLine(cells) == <<"|", " ">> \o Join(cells, Bar) \o <<" ", "|">>

formatTableMd(headers, rows) ==
  LET header == TableLine(headers)
      separator == TableLine([i \in 1..Len(headers) |-> Dashes])
      body == Join([r \in 1..Len(rows) |-> TableLine(rows[r])], <<"\n">>)
  IN Join(<<header, separator, body>>, <<"\n">>)

(***************************************************************************)
(* The HTMLRewriter event stream: the environment of parseMarkdown         *)
(***************************************************************************)
HeadingTags == {"h1", "h2", "h3", "h4", "h5", "h6"}
CellTags == {"th", "td"}
ListTags == {"ul", "ol"}

\* parseInt(el.tagName[1] ?? '1')
LevelOf(tag) ==
  CASE tag = "h1" -> 1 [] tag = "h2" -> 2 [] tag = "h3" -> 3
    [] tag = "h4" -> 4 [] tag = "h5" -> 5 [] tag = "h6" -> 6

\* The kind of section a tag belongs to
KindOf(tag) ==
  CASE tag \in HeadingTags -> "heading"
    [] tag \in {"pre", "code"} -> tag
    [] tag \in ListTags -> "list"
    [] OTHER -> tag

\* Inputs: the documents are drawn from nine families, each with its own
\* tags, text chunks and size.  The family "stray" holds rows and cells that
\* stand outside any table, "para" paragraphs of text that is not blank,
\* "slug" one heading of letters, digits, hyphens, marks and spaces, and
\* "kinds" a few elements of any of the five kinds of section.
Families ==
  {"heading", "code", "table", "list", "mixed", "stray", "para", "slug", "kinds"}

\* The documents that are parsed more than once, by successive calls, are
\* drawn from the family "again": code blocks and lists.  Of these the events
\* given to a call are kept.
RepeatedFamilies == {"again"}

\* The documents of two calls that are in flight together are drawn from the
\* family "pair": headings and lists.  Of these the events are kept as well.
PairedFamilies == {"pair"}
TracedFamilies == RepeatedFamilies \cup PairedFamilies

\* The documents of lists nested in the items of lists are drawn from the
\* family "nest".
NestedFamilies == {"nest"}

MaxElemsHeading == 2
MaxElemsCode == 3
MaxElemsTable == 6
MaxElemsList == 3
MaxElemsMixed == 3
MaxElemsStray == 2
MaxElemsPara == 2
MaxElemsSlug == 1
MaxElemsKinds == 2
MaxElemsAgain == 2
MaxElemsPair == 2
MaxElemsNest == 5
MaxTextsHeading == 3
MaxTextsCode == 2
MaxTextsTable == 3
MaxTextsList == 2
MaxTextsMixed == 1
MaxTextsStray == 2
MaxTextsPara == 2
MaxTextsSlug == 3
MaxTextsKinds == 1
MaxTextsAgain == 1
MaxTextsPair == 1
MaxTextsNest == 2

\* the number of calls made of parseMarkdown, one after the other
MaxCalls == 3

MaxElems(f) ==
  CASE f = "heading" -> MaxElemsHeading [] f = "code" -> MaxElemsCode
    [] f = "table" -> MaxElemsTable [] f = "list" -> MaxElemsList
    [] f = "stray" -> MaxElemsStray [] f = "again" -> MaxElemsAgain
    [] f = "para" -> MaxElemsPara [] f = "slug" -> MaxElemsSlug
    [] f = "kinds" -> MaxElemsKinds [] f = "pair" -> MaxElemsPair
    [] f = "nest" -> MaxElemsNest
    [] OTHER -> MaxElemsMixed

MaxTexts(f) ==
  CASE f = "heading" -> MaxTextsHeading [] f = "code" -> MaxTextsCode
    [] f = "table" -> MaxTextsTable [] f = "list" -> MaxTextsList
    [] f = "stray" -> MaxTextsStray [] f = "again" -> MaxTextsAgain
    [] f = "para" -> MaxTextsPara [] f = "slug" -> MaxTextsSlug
    [] f = "kinds" -> MaxTextsKinds [] f = "pair" -> MaxTextsPair
    [] f = "nest" -> MaxTextsNest
    [] OTHER -> MaxTextsMixed

TagsOf(f) ==
  CASE f = "heading" -> {"h1", "h6"}
    [] f = "code" -> {"pre", "code"}
    [] f = "table" -> {"table", "thead", "tbody", "tr", "th", "td"}
    [] f = "list" -> {"ul", "ol", "li"}
    [] f = "stray" -> {"tr", "th", "td"}
    [] f = "para" -> {"p"}
    [] f = "slug" -> {"h2"}
    [] f = "kinds" -> {"h1", "pre", "code", "table", "tr", "td", "ul", "li", "p"}
    [] f = "again" -> {"pre", "code", "ul", "li"}
    [] f = "pair" -> {"h1", "ul", "li"}
    [] f = "nest" -> {"ul", "ol", "li"}
    [] OTHER -> {"h1", "pre", "code", "table", "p"}

ChunksOf(f) ==
  CASE f = "heading" -> {<<" ">>, <<"A", "!">>, <<"b">>}
    [] f = "code" -> {<<"/", "/", " ", "a", ".", "t">>, <<"#", "a", ".", "t", "\n">>,
                      <<"\n", "x", " ">>}
    [] f = "table" -> {<<"a">>, <<" ", "b">>}
    [] f = "list" -> {<<" ", "a">>, <<"b", "\n">>}
    [] f = "para" -> {<<"a">>, <<"b", "\n">>}
    [] f = "nest" -> {<<"a">>, <<"b">>}
    [] f = "slug" -> {<<"-">>, <<"!", "A">>, <<"1">>, <<" ">>}
    [] OTHER -> {<<"a">>}

\* The values of the class attribute of a code element (<<>>: no attribute)
ClassAttrs ==
  {<<>>,
   <<LanguagePrefix \o <<"t", "s">>>>,
   <<<<"a", " ">> \o LanguagePrefix \o <<"c", "-", "b">>>>,
   <<LanguagePrefix>>}

VARIABLES
  family,          \* the family the document is drawn from
  stack,           \* the open elements, outermost first
  midText,         \* the last chunk delivered was not the last of its text node
  opened, closed,  \* the number of open tags and close tags delivered so far
  texts,           \* the number of text chunks delivered so far
  emitted,         \* for every section pushed: the tag events that framed it
  pc,              \* "parsing" until rewriter.transform has returned, then "done";
                   \* "failed" when the entry point has thrown
  sections, idx,
  currentHeading, currentCode, currentTable, currentList,
  currentRow, currentListItem, inThead, cellIndex,
  doc,             \* the ParsedDoc returned, <<>> while parsing
  call,            \* the entry point called, its argument and what its I/O met
  error,           \* the error the entry point has thrown, <<>> if none
  query,           \* the last query made of the ParsedDoc and what it returned
  events,          \* the events given to the call so far (kept for the traced
                   \* families only)
  first,           \* an earlier call: the events it was given and its sections
  calls,           \* the number of calls made before this one
  other            \* the call in flight that is not running: its variables;
                   \* whether the running call had been given events when it
                   \* resumed, and whether it has been given one since

env == <<family, stack, midText, opened, closed, texts, emitted>>
state == <<sections, idx, currentHeading, currentCode, currentTable, currentList,
           currentRow, currentListItem, inThead, cellIndex>>
result == <<doc, call, error, query>>
replay == <<events, first, calls, other>>
vars == <<env, state, pc, result, replay>>

Top == stack[Len(stack)]
HasOpen(tags) == \E i \in 1..Len(stack) : stack[i].tag \in tags
\* an element matched by the selector 'pre > code' is open
HasOpenCode == \E i \in 2..Len(stack) : stack[i].tag = "code" /\ stack[i - 1].tag = "pre"

\* the events of the stream: an open tag with its class attribute, a text
\* chunk, a close tag
OpenEvent(tag, attr) ==
  [kind |-> "open", tag |-> tag, attr |-> attr, chunk |-> <<>>, last |-> FALSE]
TextEvent(chunk, last) ==
  [kind |-> "text", tag |-> "", attr |-> <<>>, chunk |-> chunk, last |-> last]
CloseEvent(tag) ==
  [kind |-> "close", tag |-> tag, attr |-> <<>>, chunk |-> <<>>, last |-> FALSE]

\* the event e is given to the call.  Of two calls in flight together the
\* first parses the document that the call before them parsed alone, the
\* second any document.
Given(e) ==
  /\ (family \in PairedFamilies /\ calls = 1) =>
       /\ Len(events) < Len(first[1].events)
       /\ first[1].events[Len(events) + 1] = e
  /\ events' = IF family \in TracedFamilies THEN Append(events, e) ELSE events
  /\ other' = IF other = <<>> THEN other ELSE <<[other[1] EXCEPT !.gave = TRUE]>>
  /\ UNCHANGED <<first, calls>>

Init ==
  /\ family \in Families
  /\ stack = <<>>
  /\ midText = FALSE
  /\ opened = 0
  /\ closed = 0
  /\ texts = 0
  /\ emitted = {}
  /\ pc = "parsing"
  /\ sections = <<>>
  /\ idx = 0
  /\ currentHeading = <<>>
  /\ currentCode = <<>>
  /\ currentTable = <<>>
  /\ currentList = <<>>
  /\ currentRow = <<>>
  /\ currentListItem = <<>>
  /\ inThead = FALSE
  /\ cellIndex = 0
  /\ doc = <<>>
  /\ call = <<>>
  /\ error = <<>>
  /\ query = <<>>
  /\ events = <<>>
  /\ first = <<>>
  /\ calls = 0
  /\ other = <<>>

(***************************************************************************)
(* The sections                                                            *)
(***************************************************************************)
DigitChars == <<"1", "2", "3", "4", "5", "6", "7", "8", "9">>

\* `${n}` for n >= 0
RECURSIVE NumStr(_)
NumStr(n) ==
  IF n = 0 THEN <<"0">>
  ELSE IF n < 10 THEN <<DigitChars[n]>>
  ELSE NumStr(n \div 10) \o NumStr(n % 10)

\* the three grave accents of a fence; a string cannot hold that character,
\* so "~" stands for it
Fence == <<"~", "~", "~">>

\* h is currentHeading, i the value of idx++.  (const text = ... is bound
\* as a value, through a set of one element, so that it is computed once.)
HeadingSection(h, i) ==
  CHOOSE s \in {[idx |-> i, type |-> "heading", level |-> h.level, text |-> text,
                 slug |-> slugify(text),
                 raw |-> Repeat(<<"#">>, h.level) \o <<" ">> \o text] :
                  text \in {trim(h.text)}} : TRUE

\* c is currentCode; const code = ... is bound as a value likewise
CodeSection(c, i) ==
  CHOOSE s \in {[idx |-> i, type |-> "code", lang |-> c.lang, code |-> code,
                 filename |-> matchFilename(code),
                 raw |-> Fence \o c.lang \o <<"\n">> \o code \o <<"\n">> \o Fence] :
                  code \in {trim(c.code)}} : TRUE

\* row[i] ?? '' without the trim
cellOfRaw(row, i) == IF i <= Len(row) THEN row[i] ELSE <<>>

\* row[i]?.trim() ?? ''   (i counts from 1 here)
cellOf(row, i) == IF i <= Len(row) THEN trim(row[i]) ELSE <<>>

\* headers.forEach((h, i) => { obj[h] = row[i]?.trim() ?? '' }), from header i on
RECURSIVE rowObject(_, _, _, _)
rowObject(obj, headers, row, i) ==
  IF i > Len(headers) THEN obj
  ELSE rowObject([h \in DOMAIN obj \cup {headers[i]} |->
                    IF h = headers[i] THEN cellOf(row, i) ELSE obj[h]],
                 headers, row, i + 1)

EmptyObject == [h \in {} |-> <<>>]

\* t is currentTable
TableSection(t, i) ==
  [idx |-> i, type |-> "table", headers |-> t.headers,
   rows |-> [r \in 1..Len(t.rows) |-> rowObject(EmptyObject, t.headers, t.rows[r], 1)],
   raw |-> formatTableMd(t.headers, t.rows)]

listLine(ordered, item, i) ==
  IF ordered THEN NumStr(i) \o <<".", " ">> \o item ELSE <<"-", " ">> \o item

\* l is currentList
ListSection(l, i) ==
  [idx |-> i, type |-> "list", ordered |-> l.ordered, items |-> l.items,
   raw |-> Join([n \in 1..Len(l.items) |-> listLine(l.ordered, l.items[n], n)],
                <<"\n">>)]

\* text is the variable `text` of the element handler of 'p'
ContentSection(text, i) ==
  [idx |-> i, type |-> "content", text |-> trim(text), raw |-> trim(text)]

(***************************************************************************)
(* The handlers' effects on one piece of state                             *)
(***************************************************************************)
\* sections.unshift(s) in place of sections.push(s)
pushFront(secs, s) == <<s>> \o secs

\* sections.push(s)
push(secs, s) == Append(secs, s)

\* idx read without the increment
nextIdxStuck(i) == i

\* idx after idx++
nextIdx(i) == i + 1

\* currentHeading.text = chunk.text in place of +=
headingTextAssign(cur, chunk) ==
  IF cur # <<>> THEN <<[cur[1] EXCEPT !.text = chunk]>> ELSE cur

\* text(chunk) of 'h1, h2, h3, h4, h5, h6'
headingText(cur, chunk) ==
  IF cur # <<>> THEN <<[cur[1] EXCEPT !.text = @ \o chunk]>> ELSE cur

\* currentCode.code = chunk.text in place of +=
codeTextAssign(cur, chunk) ==
  IF cur # <<>> THEN <<[cur[1] EXCEPT !.code = chunk]>> ELSE cur

\* text(chunk) of 'pre > code'
codeText(cur, chunk) ==
  IF cur # <<>> THEN <<[cur[1] EXCEPT !.code = @ \o chunk]>> ELSE cur

\* text(chunk) of 'th, td': the row buffer
cellTextRow(row, ci, chunk) ==
  LET made == IF ci + 1 > Len(row) THEN Append(row, <<>>) ELSE row
  IN [made EXCEPT ![ci + 1] = @ \o chunk]

\* text(chunk) of 'th, td': the cell position
cellTextIndex(ci, last) == IF last THEN ci + 1 ELSE ci

\* the end tag of 'tr' without the test of currentTable: reading headers of
\* null raises a TypeError, written here as a value of its own
trEndUnguarded(cur, row, inHead) ==
  IF cur = <<>> THEN <<[raised |-> "TypeError"]>>
  ELSE IF inHead \/ Len(cur[1].headers) = 0
       THEN <<[cur[1] EXCEPT !.headers = row]>>
       ELSE <<[cur[1] EXCEPT !.rows = Append(@, row)]>>

\* the end tag of 'tr', on currentTable
trEnd(cur, row, inHead) ==
  IF cur = <<>> THEN cur
  ELSE IF inHead \/ Len(cur[1].headers) = 0
       THEN <<[cur[1] EXCEPT !.headers = row]>>
       ELSE <<[cur[1] EXCEPT !.rows = Append(@, row)]>>

\* the end tag of 'ul, ol' pushes a section whatever the number of items
listEndsAlways(cur) == cur # <<>>

\* the end tag of 'ul, ol' pushes a section: currentList && items.length > 0
listEnds(cur) == cur # <<>> /\ Len(cur[1].items) > 0

\* the end tag of 'li' without the trim
liEndRaw(cur, item) ==
  IF cur # <<>> THEN <<[cur[1] EXCEPT !.items = Append(@, item)]>> ELSE cur

\* the end tag of 'li', on currentList
liEnd(cur, item) ==
  IF cur # <<>> THEN <<[cur[1] EXCEPT !.items = Append(@, trim(item))]>> ELSE cur

(***************************************************************************)
(* The open elements.  A frame holds the tag, its class attribute, the     *)
(* variable `text` of the element handler of 'p', and what the claims      *)
(* need to know of the element:                                            *)
(*   no     the number of its open tag                                     *)
(*   seen   the text delivered inside it                                   *)
(*   same   an element of its kind encloses it or was opened inside it     *)
(*   k      tr: the cells opened in it; th, td: its position in its row;   *)
(*          table: the rows closed in it; pre: the code children opened   *)
(*   child  pre: the text of its last closed code child, if any;           *)
(*          ul, ol: for every li closed in it, the text delivered inside   *)
(*          the li and whether the li was nested with another li           *)
(***************************************************************************)
Innermost(tags) ==
  LET is == {i \in 1..Len(stack) : stack[i].tag \in tags}
  IN IF is = {} THEN 0 ELSE SetMax(is)

Pushed(tag, attr) ==
  LET kind == KindOf(tag)
      tr == IF tag \in CellTags THEN Innermost({"tr"}) ELSE 0
      pre == IF tag = "code" /\ stack # <<>> /\ Top.tag = "pre" THEN Len(stack) ELSE 0
      below == [i \in 1..Len(stack) |->
                 [stack[i] EXCEPT
                    !.same = @ \/ KindOf(stack[i].tag) = kind,
                    !.k = IF i \in {tr, pre} THEN @ + 1 ELSE @]]
  IN Append(below,
            [tag |-> tag, attr |-> attr, text |-> <<>>, seen |-> <<>>,
             no |-> opened + 1,
             same |-> \E i \in 1..Len(stack) : KindOf(stack[i].tag) = kind,
             k |-> IF tr = 0 THEN 0 ELSE stack[tr].k + 1,
             child |-> <<>>])

Popped ==
  LET rest == SubSeq(stack, 1, Len(stack) - 1)
      table == IF Top.tag = "tr" THEN Innermost({"table"}) ELSE 0
      pre == IF Top.tag = "code" /\ rest # <<>> /\ rest[Len(rest)].tag = "pre"
             THEN Len(rest) ELSE 0
      list == IF Top.tag = "li" THEN Innermost(ListTags) ELSE 0
  IN [i \in 1..Len(rest) |->
        [rest[i] EXCEPT
           !.k = IF i = table THEN @ + 1 ELSE @,
           !.child = IF i = pre THEN <<Top.seen>>
                     ELSE IF i = list
                          THEN Append(@, [text |-> Top.seen, same |-> Top.same])
                          ELSE @]]

\* the content model the documents of a family follow
Placed(tag) ==
  CASE family = "table" ->
         CASE tag = "table" -> stack = <<>>
           [] tag \in {"thead", "tbody"} -> stack # <<>> /\ Top.tag = "table"
           [] tag = "tr" -> stack # <<>> /\ Top.tag \in {"table", "thead", "tbody"}
           [] tag = "th" -> /\ Len(stack) >= 2 /\ Top.tag = "tr"
                            /\ stack[Len(stack) - 1].tag = "thead"
           [] OTHER -> /\ Len(stack) >= 2 /\ Top.tag = "tr"
                       /\ stack[Len(stack) - 1].tag # "thead"
    [] family = "code" ->
         (tag = "code" => stack # <<>> /\ Top.tag = "pre")
    [] family \in NestedFamilies ->
         IF stack = <<>> THEN tag \in ListTags
         ELSE IF tag = "li" THEN Top.tag \in ListTags ELSE Top.tag = "li"
    [] family \in TracedFamilies ->
         CASE tag = "li" -> stack # <<>> /\ Top.tag \in ListTags
           [] tag = "code" -> stack # <<>> /\ Top.tag = "pre"
           [] OTHER -> stack = <<>>
    [] OTHER -> TRUE

CanOpen(tag) ==
  /\ pc = "parsing"
  /\ ~midText
  /\ tag \in TagsOf(family)
  /\ opened < MaxElems(family)
  /\ Placed(tag)

Open(tag, attr) ==
  /\ CanOpen(tag)
  /\ stack' = Pushed(tag, attr)
  /\ opened' = opened + 1
  /\ Given(OpenEvent(tag, attr))
  /\ UNCHANGED <<family, midText, closed, texts, emitted, pc, result>>

CanClose(tags) ==
  /\ pc = "parsing"
  /\ ~midText
  /\ stack # <<>>
  /\ Top.tag \in tags

\* the end tag of the innermost open element
Close ==
  /\ stack' = Popped
  /\ closed' = closed + 1
  /\ Given(CloseEvent(Top.tag))
  /\ UNCHANGED <<family, midText, opened, texts, pc, result>>

\* sections.push({ idx: idx++, ... }) in an end tag handler
Emit(s) ==
  \E v \in {s} :
    /\ sections' = push(sections, v)
    /\ idx' = nextIdx(idx)
    /\ emitted' = emitted \cup
         {[idx |-> v.idx, no |-> Top.no, openedBefore |-> opened, closedBefore |-> closed]}

NoEmit == UNCHANGED <<sections, idx, emitted>>

(***************************************************************************)
(* Open tags                                                               *)
(***************************************************************************)
OpenHeading ==
  \E tag \in HeadingTags :
    /\ Open(tag, <<>>)
    /\ currentHeading' = <<[level |-> LevelOf(tag), text |-> <<>>]>>
    /\ UNCHANGED <<sections, idx, currentCode, currentTable, currentList,
                   currentRow, currentListItem, inThead, cellIndex>>

\* 'pre > code' matches a code element whose parent is a pre element
OpenCode ==
  \E attr \in ClassAttrs :
    /\ Open("code", attr)
    /\ currentCode' = IF stack # <<>> /\ Top.tag = "pre"
                      THEN <<[lang |-> matchLanguage(attr), code |-> <<>>]>>
                      ELSE currentCode
    /\ UNCHANGED <<sections, idx, currentHeading, currentTable, currentList,
                   currentRow, currentListItem, inThead, cellIndex>>

OpenPre ==
  /\ Open("pre", <<>>)
  /\ UNCHANGED state

OpenTable ==
  /\ Open("table", <<>>)
  /\ currentTable' = <<[headers |-> <<>>, rows |-> <<>>]>>
  /\ inThead' = FALSE
  /\ UNCHANGED <<sections, idx, currentHeading, currentCode, currentList,
                 currentRow, currentListItem, cellIndex>>

OpenThead ==
  /\ Open("thead", <<>>)
  /\ inThead' = TRUE
  /\ UNCHANGED <<sections, idx, currentHeading, currentCode, currentTable,
                 currentList, currentRow, currentListItem, cellIndex>>

OpenTbody ==
  /\ Open("tbody", <<>>)
  /\ inThead' = FALSE
  /\ UNCHANGED <<sections, idx, currentHeading, currentCode, currentTable,
                 currentList, currentRow, currentListItem, cellIndex>>

OpenTr ==
  /\ Open("tr", <<>>)
  /\ currentRow' = <<>>
  /\ cellIndex' = 0
  /\ UNCHANGED <<sections, idx, currentHeading, currentCode, currentTable,
                 currentList, currentListItem, inThead>>

\* 'th, td' has no element handler
OpenCell ==
  \E tag \in CellTags :
    /\ Open(tag, <<>>)
    /\ UNCHANGED state

\* a list that opens in another list and keeps the list the outer one has
\* collected
OpenListKept ==
  \E tag \in ListTags :
    /\ Open(tag, <<>>)
    /\ currentList' = IF currentList # <<>> THEN currentList
                      ELSE <<[ordered |-> (tag = "ol"), items |-> <<>>]>>
    /\ UNCHANGED <<sections, idx, currentHeading, currentCode, currentTable,
                   currentRow, currentListItem, inThead, cellIndex>>

OpenList ==
  \E tag \in ListTags :
    /\ Open(tag, <<>>)
    /\ currentList' = <<[ordered |-> (tag = "ol"), items |-> <<>>]>>
    /\ UNCHANGED <<sections, idx, currentHeading, currentCode, currentTable,
                   currentRow, currentListItem, inThead, cellIndex>>

\* the open tag of li, were the row buffer of the table to serve as the
\* buffer of the item too
OpenLiSharedBuffer ==
  /\ Open("li", <<>>)
  /\ currentListItem' = <<>>
  /\ currentRow' = <<>>
  /\ UNCHANGED <<sections, idx, currentHeading, currentCode, currentTable,
                 currentList, inThead, cellIndex>>

OpenLi ==
  /\ Open("li", <<>>)
  /\ currentListItem' = <<>>
  /\ UNCHANGED <<sections, idx, currentHeading, currentCode, currentTable,
                 currentList, currentRow, inThead, cellIndex>>

\* let text = '' is the frame's text
OpenP ==
  /\ Open("p", <<>>)
  /\ UNCHANGED state

\* the text handler of 'p', were it to append the chunk to the text of its
\* element
pTextAppended(text, chunk) == text \o chunk

\* text(chunk) { } of 'p': the text declared by the element handler is out of
\* its scope and stays as it is
pText(text, chunk) == text

(***************************************************************************)
(* A text chunk: the text handler of every selector that matches an open   *)
(* element runs once.                                                      *)
(***************************************************************************)
Text ==
  \E chunk \in ChunksOf(family), last \in BOOLEAN :
    /\ pc = "parsing"
    /\ stack # <<>>
    /\ family = "table" => Top.tag \in CellTags
    /\ family \in TracedFamilies \cup NestedFamilies => Top.tag \in {"h1", "code", "li"}
    /\ texts < MaxTexts(family)
    /\ texts + 1 = MaxTexts(family) => last
    /\ texts' = texts + 1
    /\ midText' = ~last
    /\ Given(TextEvent(chunk, last))
    /\ stack' = [i \in 1..Len(stack) |->
                   [stack[i] EXCEPT
                      !.seen = @ \o chunk,
                      !.text = IF stack[i].tag = "p" THEN pText(@, chunk) ELSE @]]
    /\ currentHeading' = IF HasOpen(HeadingTags)
                         THEN headingText(currentHeading, chunk) ELSE currentHeading
    /\ currentCode' = IF HasOpenCode THEN codeText(currentCode, chunk) ELSE currentCode
    /\ currentRow' = IF HasOpen(CellTags)
                     THEN cellTextRow(currentRow, cellIndex, chunk) ELSE currentRow
    /\ cellIndex' = IF HasOpen(CellTags)
                    THEN cellTextIndex(cellIndex, last) ELSE cellIndex
    /\ currentListItem' = IF HasOpen({"li"})
                          THEN currentListItem \o chunk ELSE currentListItem
    /\ UNCHANGED <<family, opened, closed, emitted, pc, result, sections, idx,
                   currentTable, currentList, inThead>>

(***************************************************************************)
(* End tags                                                                *)
(***************************************************************************)
CloseHeading ==
  /\ CanClose(HeadingTags)
  /\ Close
  /\ IF currentHeading # <<>>
     THEN /\ Emit(HeadingSection(currentHeading[1], idx))
          /\ currentHeading' = <<>>
     ELSE NoEmit /\ UNCHANGED currentHeading
  /\ UNCHANGED <<currentCode, currentTable, currentList, currentRow,
                 currentListItem, inThead, cellIndex>>

\* 'pre > code' registers no end tag handler
CloseCode ==
  /\ CanClose({"code"})
  /\ Close
  /\ NoEmit
  /\ UNCHANGED <<currentHeading, currentCode, currentTable, currentList,
                 currentRow, currentListItem, inThead, cellIndex>>

ClosePre ==
  /\ CanClose({"pre"})
  /\ Close
  /\ IF currentCode # <<>>
     THEN /\ Emit(CodeSection(currentCode[1], idx))
          /\ currentCode' = <<>>
     ELSE NoEmit /\ UNCHANGED currentCode
  /\ UNCHANGED <<currentHeading, currentTable, currentList, currentRow,
                 currentListItem, inThead, cellIndex>>

CloseTable ==
  /\ CanClose({"table"})
  /\ Close
  /\ IF currentTable # <<>>
     THEN /\ Emit(TableSection(currentTable[1], idx))
          /\ currentTable' = <<>>
     ELSE NoEmit /\ UNCHANGED currentTable
  /\ UNCHANGED <<currentHeading, currentCode, currentList, currentRow,
                 currentListItem, inThead, cellIndex>>

\* thead, tbody, th and td register no end tag handler
CloseInert ==
  /\ CanClose({"thead", "tbody", "th", "td"})
  /\ Close
  /\ NoEmit
  /\ UNCHANGED <<currentHeading, currentCode, currentTable, currentList,
                 currentRow, currentListItem, inThead, cellIndex>>

CloseTr ==
  /\ CanClose({"tr"})
  /\ Close
  /\ NoEmit
  /\ currentTable' = trEnd(currentTable, currentRow, inThead)
  /\ UNCHANGED <<currentHeading, currentCode, currentList, currentRow,
                 currentListItem, inThead, cellIndex>>

CloseList ==
  /\ CanClose(ListTags)
  /\ Close
  /\ IF listEnds(currentList)
     THEN /\ Emit(ListSection(currentList[1], idx))
          /\ currentList' = <<>>
     ELSE NoEmit /\ UNCHANGED currentList
  /\ UNCHANGED <<currentHeading, currentCode, currentTable, currentRow,
                 currentListItem, inThead, cellIndex>>

CloseLi ==
  /\ CanClose({"li"})
  /\ Close
  /\ NoEmit
  /\ currentList' = liEnd(currentList, currentListItem)
  /\ UNCHANGED <<currentHeading, currentCode, currentTable, currentRow,
                 currentListItem, inThead, cellIndex>>

CloseP ==
  /\ CanClose({"p"})
  /\ Close
  /\ IF trim(Top.text) # <<>>
     THEN Emit(ContentSection(Top.text, idx))
     ELSE NoEmit
  /\ UNCHANGED <<currentHeading, currentCode, currentTable, currentList,
                 currentRow, currentListItem, inThead, cellIndex>>

(***************************************************************************)
(* Document assembly, after await rewriter.transform(...).text()           *)
(***************************************************************************)
UnknownSource == <<"u", "n", "k", "n", "o", "w", "n">>
SourceArgs == {<<>>, <<<<"s">>>>}

\* The entry points.  A call is the entry point, its argument (for
\* parseMarkdown the optional source), and what its I/O meets: for parseFile
\* whether the file exists, for fetchDocs a response with a status or a
\* rejected fetch.  parseMarkdown does not read source before the assembly,
\* so a call that reaches parseMarkdown is drawn where the document is
\* assembled.
Paths == {<<"f">>}
Urls == {<<"u">>}
Statuses == {200, 404}
NetworkError == <<"E">>

\* parseMarkdown, fetchDocs and parseFile do not read the content they pass
\* on: the calls of parseMarkdown that name a source are made with the
\* documents of one family, and the files and pages read hold the documents
\* of another.
SourcedFamilies == {"heading"}
FetchedFamilies == {"stray"}

Calls ==
  [entry : {"parseMarkdown"}, arg : SourceArgs, io : {"none"}, status : {0}]
    \cup [entry : {"parseFile"}, arg : {<<p>> : p \in Paths},
          io : {"exists", "missing"}, status : {0}]
    \cup [entry : {"fetchDocs"}, arg : {<<u>> : u \in Urls},
          io : {"response"}, status : Statuses]
    \cup [entry : {"fetchDocs"}, arg : {<<u>> : u \in Urls},
          io : {"rejected"}, status : {0}]

\* res.ok taken as true whatever the status
resOkAlways(status) == TRUE

\* res.ok
resOk(status) == status \in 200..299

FileNotFound == <<"F", "i", "l", "e", " ", "n", "o", "t", " ", "f", "o", "u", "n", "d",
                  ":", " ">>
FailedToFetch == <<"F", "a", "i", "l", "e", "d", " ", "t", "o", " ", "f", "e", "t", "c",
                   "h", " ">>

\* the call throws before parseMarkdown is reached
throws(c) ==
  CASE c.entry = "parseFile" -> c.io = "missing"
    [] c.entry = "fetchDocs" -> c.io = "rejected" \/ ~resOk(c.status)
    [] OTHER -> FALSE

\* the error thrown
thrown(c) ==
  CASE c.entry = "parseFile" -> FileNotFound \o c.arg[1]
    [] c.entry = "fetchDocs" /\ c.io = "rejected" -> NetworkError
    [] OTHER -> FailedToFetch \o c.arg[1] \o <<":", " ">> \o NumStr(c.status)

\* the source parseMarkdown is called with
sourceOf(c) == IF c.arg = <<>> THEN UnknownSource ELSE c.arg[1]

\* find in place of filter: only the first section of the type
filterTypeFirst(secs, type) ==
  LET all == SelectSeq(secs, LAMBDA s : s.type = type)
  IN IF all = <<>> THEN all ELSE <<Head(all)>>

filterType(secs, type) == SelectSeq(secs, LAMBDA s : s.type = type)

\* the last heading of level 1 in place of the first
titleOfLast(headings, source) ==
  LET ones == {i \in 1..Len(headings) : headings[i].level = 1}
  IN IF ones = {} THEN source ELSE headings[SetMax(ones)].text

\* headings.find((h) => h.level === 1)?.text ?? source
titleOf(headings, source) ==
  LET ones == {i \in 1..Len(headings) : headings[i].level = 1}
  IN IF ones = {} THEN source ELSE headings[SetMin(ones)].text

ParsedDoc(secs, source) ==
  LET headings == filterType(secs, "heading")
  IN [source |-> source,
      title |-> titleOf(headings, source),
      sections |-> secs,
      headings |-> headings,
      codeBlocks |-> filterType(secs, "code"),
      tables |-> filterType(secs, "table"),
      total |-> Len(secs)]

\* the end of the event stream: parseMarkdown returns
Finish ==
  \E c \in Calls :
    /\ ~throws(c)
    /\ (c.entry = "parseMarkdown" /\ c.arg # <<>>) => family \in SourcedFamilies
    /\ c.entry # "parseMarkdown" => family \in FetchedFamilies
    /\ pc = "parsing"
    /\ stack = <<>>
    /\ ~midText
    /\ pc' = "done"
    /\ call' = c
    /\ doc' = <<ParsedDoc(sections, sourceOf(c))>>
    /\ UNCHANGED <<env, state, error, query, replay>>

\* parseFile or fetchDocs throws: parseMarkdown is not called
Throw ==
  \E c \in Calls :
    /\ throws(c)
    /\ pc = "parsing"
    /\ opened = 0 /\ texts = 0
    /\ pc' = "failed"
    /\ call' = c
    /\ error' = <<thrown(c)>>
    /\ UNCHANGED <<env, state, doc, query, replay>>

(***************************************************************************)
(* The queries of a ParsedDoc                                              *)
(***************************************************************************)
\* String.prototype.startsWith
startsWith(s, prefix) ==
  Len(prefix) <= Len(s) /\ SubSeq(s, 1, Len(prefix)) = prefix

\* String.prototype.includes
includes(s, q) ==
  \E i \in 1..Len(s) - Len(q) + 1 : SubSeq(s, i, i + Len(q) - 1) = q

\* the sections of the type, last first
byTypeReversed(d, type) ==
  LET all == SelectSeq(d.sections, LAMBDA x : x.type = type)
  IN [i \in 1..Len(all) |-> all[Len(all) + 1 - i]]

\* byType: sections.filter((s) => s.type === type)
byType(d, type) == SelectSeq(d.sections, LAMBDA x : x.type = type)

\* the code blocks of exactly the language
byLangExact(d, lang) == SelectSeq(d.codeBlocks, LAMBDA c : c.lang = lang)

\* byLang: codeBlocks.filter((c) => c.lang === lang || c.lang.startsWith(lang))
byLang(d, lang) ==
  SelectSeq(d.codeBlocks, LAMBDA c : c.lang = lang \/ startsWith(c.lang, lang))

\* search without the two toLowerCase()
searchCaseSensitive(d, q) == SelectSeq(d.sections, LAMBDA x : includes(x.raw, q))

\* search: sections.filter((s) => s.raw.toLowerCase().includes(query.toLowerCase()))
search(d, q) ==
  SelectSeq(d.sections, LAMBDA x : includes(toLowerCase(x.raw), toLowerCase(q)))

\* The queries made: the types, languages and texts asked for, of the
\* documents of these families.
QueriedFamilies == {"heading", "code", "para"}
TypeArgs == {"heading", "code", "table", "content"}
LangArgs == {<<"t">>, <<"t", "s">>}
SearchArgs == {<<"!", "B">>, <<"z">>}

\* a query can be made of the ParsedDoc returned.  A query reads doc only
\* and writes nothing but its result, so one query of each document shows
\* what any later one would return.
CanQuery ==
  /\ pc = "done"
  /\ query = <<>>
  /\ family \in QueriedFamilies
  /\ call.entry = "parseMarkdown" /\ call.arg = <<>>

Query(name, arg, found) ==
  /\ CanQuery
  /\ query' = <<[name |-> name, arg |-> arg, result |-> found]>>
  /\ UNCHANGED <<env, state, pc, doc, call, error, replay>>

ByType == \E type \in TypeArgs : Query("byType", <<type>>, byType(doc[1], type))

ByLang == \E lang \in LangArgs : Query("byLang", lang, byLang(doc[1], lang))

Search == \E q \in SearchArgs : Query("search", q, search(doc[1], q))

Next ==
  \/ OpenHeading \/ OpenCode \/ OpenPre \/ OpenTable \/ OpenThead \/ OpenTbody
  \/ OpenTr \/ OpenCell \/ OpenList \/ OpenLi \/ OpenP
  \/ Text
  \/ CloseHeading \/ CloseCode \/ ClosePre \/ CloseTable \/ CloseInert
  \/ CloseTr \/ CloseList \/ CloseLi \/ CloseP
  \/ Finish \/ Throw
  \/ ByType \/ ByLang \/ Search

Spec == Init /\ [][Next]_vars

(***************************************************************************)
(* Successive calls of parseMarkdown by one program                        *)
(***************************************************************************)
\* idx as a counter of the module, shared by the calls
idxShared(last) == last

\* let idx = 0, declared in the body of parseMarkdown
idxInitial(last) == 0

\* parseMarkdown is called again, after the call before has returned: the
\* state declared in its body and the rewriter are new.  The call that has
\* returned may be the one remembered.
Again ==
  /\ pc = "done"
  /\ family \in RepeatedFamilies
  /\ calls + 1 < MaxCalls
  /\ calls' = calls + 1
  /\ \/ first' = first
     \/ /\ first = <<>>
        /\ first' = <<[events |-> events, sections |-> doc[1].sections,
                       call |-> calls]>>
  /\ events' = <<>>
  /\ stack' = <<>>
  /\ midText' = FALSE
  /\ opened' = 0
  /\ closed' = 0
  /\ texts' = 0
  /\ emitted' = {}
  /\ pc' = "parsing"
  /\ sections' = <<>>
  /\ idx' = idxInitial(idx)
  /\ currentHeading' = <<>>
  /\ currentCode' = <<>>
  /\ currentTable' = <<>>
  /\ currentList' = <<>>
  /\ currentRow' = <<>>
  /\ currentListItem' = <<>>
  /\ inThead' = FALSE
  /\ cellIndex' = 0
  /\ doc' = <<>>
  /\ call' = <<>>
  /\ query' = <<>>
  /\ UNCHANGED <<family, error, other>>

InitAgain ==
  /\ family \in RepeatedFamilies
  /\ stack = <<>>
  /\ midText = FALSE
  /\ opened = 0
  /\ closed = 0
  /\ texts = 0
  /\ emitted = {}
  /\ pc = "parsing"
  /\ sections = <<>>
  /\ idx = 0
  /\ currentHeading = <<>>
  /\ currentCode = <<>>
  /\ currentTable = <<>>
  /\ currentList = <<>>
  /\ currentRow = <<>>
  /\ currentListItem = <<>>
  /\ inThead = FALSE
  /\ cellIndex = 0
  /\ doc = <<>>
  /\ call = <<>>
  /\ error = <<>>
  /\ query = <<>>
  /\ events = <<>>
  /\ first = <<>>
  /\ calls = 0
  /\ other = <<>>

NextAgain ==
  \/ OpenPre \/ OpenCode \/ OpenList \/ OpenLi
  \/ Text
  \/ ClosePre \/ CloseCode \/ CloseList \/ CloseLi
  \/ Finish
  \/ Again

SpecAgain == InitAgain /\ [][NextAgain]_vars

(***************************************************************************)
(* Two calls of parseMarkdown in flight together                           *)
(***************************************************************************)
\* parseMarkdown declares its variables in its body, so every call has its
\* own; it awaits the stream, and while it waits the thread may run the
\* handlers of another call.  A handler runs to its end without a break.

\* idx as a variable of the module: a call that resumes finds the value the
\* call that ran before it has left
idxOfModule(own, running) == running

\* idx of a call that resumes: the value the call itself has left
idxOfCall(own, running) == own

\* the variables of call n before it has been given an event
Fresh(n) ==
  [stack |-> <<>>, midText |-> FALSE, opened |-> 0, closed |-> 0,
   texts |-> 0, emitted |-> {}, pc |-> "parsing", sections |-> <<>>,
   idx |-> 0, currentHeading |-> <<>>, currentCode |-> <<>>,
   currentTable |-> <<>>, currentList |-> <<>>, currentRow |-> <<>>,
   currentListItem |-> <<>>, inThead |-> FALSE, cellIndex |-> 0,
   doc |-> <<>>, call |-> <<>>, events |-> <<>>, calls |-> n]

\* the variables of the call that is running
Running ==
  [stack |-> stack, midText |-> midText, opened |-> opened,
   closed |-> closed, texts |-> texts, emitted |-> emitted, pc |-> pc,
   sections |-> sections, idx |-> idx, currentHeading |-> currentHeading,
   currentCode |-> currentCode, currentTable |-> currentTable,
   currentList |-> currentList, currentRow |-> currentRow,
   currentListItem |-> currentListItem, inThead |-> inThead,
   cellIndex |-> cellIndex, doc |-> doc, call |-> call, events |-> events,
   calls |-> calls]

\* call c is the call that is running
Resume(c) ==
  /\ stack' = c.stack
  /\ midText' = c.midText
  /\ opened' = c.opened
  /\ closed' = c.closed
  /\ texts' = c.texts
  /\ emitted' = c.emitted
  /\ pc' = c.pc
  /\ sections' = c.sections
  /\ idx' = idxOfCall(c.idx, idx)
  /\ currentHeading' = c.currentHeading
  /\ currentCode' = c.currentCode
  /\ currentTable' = c.currentTable
  /\ currentList' = c.currentList
  /\ currentRow' = c.currentRow
  /\ currentListItem' = c.currentListItem
  /\ inThead' = c.inThead
  /\ cellIndex' = c.cellIndex
  /\ doc' = c.doc
  /\ call' = c.call
  /\ events' = c.events
  /\ calls' = c.calls

\* After a call that ran alone, two calls are made one after the other, the
\* first of the document of the call that ran alone: both are in flight, and
\* the first is running.
Pair ==
  /\ pc = "done"
  /\ family \in PairedFamilies
  /\ other = <<>>
  /\ first' = <<[events |-> events, sections |-> doc[1].sections, call |-> calls]>>
  /\ other' = <<[suspended |-> Fresh(2), resumedMid |-> FALSE, gave |-> FALSE]>>
  /\ Resume(Fresh(1))
  /\ UNCHANGED <<family, error, query>>

\* The thread turns from the running call to the other one, which has not
\* returned yet.  It does so when the running call has finished or awaits a
\* chunk: before its first event or after an event given to it since it
\* resumed.
Switch ==
  /\ family \in PairedFamilies
  /\ other # <<>>
  /\ other[1].suspended.pc = "parsing"
  /\ pc = "done" \/ events = <<>> \/ other[1].gave
  /\ other' = <<[suspended |-> Running,
                 resumedMid |-> other[1].suspended.events # <<>>,
                 gave |-> FALSE]>>
  /\ Resume(other[1].suspended)
  /\ UNCHANGED <<family, first, error, query>>

InitPair ==
  /\ family \in PairedFamilies
  /\ stack = <<>>
  /\ midText = FALSE
  /\ opened = 0
  /\ closed = 0
  /\ texts = 0
  /\ emitted = {}
  /\ pc = "parsing"
  /\ sections = <<>>
  /\ idx = 0
  /\ currentHeading = <<>>
  /\ currentCode = <<>>
  /\ currentTable = <<>>
  /\ currentList = <<>>
  /\ currentRow = <<>>
  /\ currentListItem = <<>>
  /\ inThead = FALSE
  /\ cellIndex = 0
  /\ doc = <<>>
  /\ call = <<>>
  /\ error = <<>>
  /\ query = <<>>
  /\ events = <<>>
  /\ first = <<>>
  /\ calls = 0
  /\ other = <<>>

NextPair ==
  \/ OpenHeading \/ OpenList \/ OpenLi
  \/ Text
  \/ CloseHeading \/ CloseList \/ CloseLi
  \/ Finish
  \/ Pair
  \/ Switch

SpecPair == InitPair /\ [][NextPair]_vars

(***************************************************************************)
(* Lists nested in list items                                              *)
(***************************************************************************)
InitNest ==
  /\ family \in NestedFamilies
  /\ stack = <<>>
  /\ midText = FALSE
  /\ opened = 0
  /\ closed = 0
  /\ texts = 0
  /\ emitted = {}
  /\ pc = "parsing"
  /\ sections = <<>>
  /\ idx = 0
  /\ currentHeading = <<>>
  /\ currentCode = <<>>
  /\ currentTable = <<>>
  /\ currentList = <<>>
  /\ currentRow = <<>>
  /\ currentListItem = <<>>
  /\ inThead = FALSE
  /\ cellIndex = 0
  /\ doc = <<>>
  /\ call = <<>>
  /\ error = <<>>
  /\ query = <<>>
  /\ events = <<>>
  /\ first = <<>>
  /\ calls = 0
  /\ other = <<>>

NextNest ==
  \/ OpenList \/ OpenLi
  \/ Text
  \/ CloseList \/ CloseLi
  \/ Finish

SpecNest == InitNest /\ [][NextNest]_vars

(***************************************************************************)
(* The extractor: pure functions of a ParsedDoc                            *)
(***************************************************************************)
\* the end of the maximal run of characters of S, and of characters outside
\* S, that starts at position p of s (p - 1 when the run is empty)
RunEnd(s, p, S) ==
  SetMax({p - 1} \cup {e \in p..Len(s) : \A i \in p..e : s[i] \in S})
RunEndOutside(s, p, S) ==
  SetMax({p - 1} \cup {e \in p..Len(s) : \A i \in p..e : s[i] \notin S})

\* w stands in s at position p
LiteralAt(s, p, w) ==
  p >= 1 /\ p + Len(w) - 1 <= Len(s) /\ SubSeq(s, p, p + Len(w) - 1) = w

\* mainHeading.text.replace(/\s+/g, '')
removeWhitespace(text) == SelectSeq(text, LAMBDA c : c \notin Space)

\* name.replace(/`/g, '')
stripBackticks(s) == SelectSeq(s, LAMBDA c : c # "~")

\* Set.add, in insertion order
setAdd(seq, x) ==
  IF \E i \in 1..Len(seq) : seq[i] = x THEN seq ELSE Append(seq, x)

ImportWord == <<"i", "m", "p", "o", "r", "t">>
FromWord == <<"f", "r", "o", "m">>
Quotes == {"\"", "'"}

\* /import\s+\{([^}]+)\}\s+from\s+["']([^"']+)["']/ matched at position p of
\* code: <<>> when it does not match there, else the two groups and the last
\* position of the match.  Every quantified run is followed by a character
\* the run cannot hold, so only the maximal run matches.
matchImport(code, p) ==
  LET a == RunEnd(code, p + 6, Space)
      c == RunEndOutside(code, a + 2, {"}"})
      d == RunEnd(code, c + 2, Space)
      e == RunEnd(code, d + 5, Space)
      g == RunEndOutside(code, e + 2, Quotes)
  IN IF /\ LiteralAt(code, p, ImportWord)
        /\ a >= p + 6
        /\ LiteralAt(code, a + 1, <<"{">>)
        /\ c >= a + 2
        /\ LiteralAt(code, c + 1, <<"}">>)
        /\ d >= c + 2
        /\ LiteralAt(code, d + 1, FromWord)
        /\ e >= d + 5
        /\ e + 1 <= Len(code) /\ code[e + 1] \in Quotes
        /\ g >= e + 2
        /\ g + 1 <= Len(code)
     THEN <<[names |-> SubSeq(code, a + 2, c), from |-> SubSeq(code, e + 2, g),
             end |-> g + 1]>>
     ELSE <<>>

\* block.code.matchAll(...), from position p on
RECURSIVE importMatches(_, _)
importMatches(code, p) ==
  IF p > Len(code) THEN <<>>
  ELSE LET m == matchImport(code, p)
       IN IF m = <<>> THEN importMatches(code, p + 1)
          ELSE m \o importMatches(code, m[1].end + 1)

\* `import { ${match[1]!.trim()} } from "${match[2]}";`
importLine(m) ==
  ImportWord \o <<" ", "{", " ">> \o trim(m.names) \o <<" ", "}", " ">> \o FromWord
    \o <<" ", "\"">> \o m.from \o <<"\"", ";">>

ImportLangs == {<<"t", "s", "x">>, <<"t", "s">>, <<"j", "s", "x">>}

RECURSIVE addImports(_, _, _)
addImports(imports, ms, i) ==
  IF i > Len(ms) THEN imports
  ELSE addImports(setAdd(imports, importLine(ms[i])), ms, i + 1)

\* extractImports, from block n on
RECURSIVE importsFrom(_, _, _)
importsFrom(imports, codeBlocks, n) ==
  IF n > Len(codeBlocks) THEN imports
  ELSE importsFrom(IF codeBlocks[n].lang \in ImportLangs
                   THEN addImports(imports, importMatches(codeBlocks[n].code, 1), 1)
                   ELSE imports,
                   codeBlocks, n + 1)

extractImports(codeBlocks) == importsFrom(<<>>, codeBlocks, 1)

\* new RegExp(`${mainComponent}\\.(\\w+)`, 'g'): the name is the source of
\* the expression.  For names written in word characters and '+': a '+' is a
\* quantifier of the character before it, and the expression is a syntax
\* error ("nothing to repeat") when a '+' stands first or follows a '+'.
patternThrows(name) ==
  \E i \in 1..Len(name) : name[i] = "+" /\ (i = 1 \/ name[i - 1] = "+")

\* the characters of the pattern, each with whether a '+' follows it
patternAtoms(name) ==
  LET at == {i \in 1..Len(name) : name[i] # "+"}
      pos(k) == CHOOSE i \in at : Cardinality({j \in at : j < i}) = k - 1
  IN [k \in 1..Cardinality(at) |->
        [ch |-> name[pos(k)],
         plus |-> pos(k) < Len(name) /\ name[pos(k) + 1] = "+"]]

\* the positions that follow a match of the atoms k.. at position p of s
RECURSIVE atomEnds(_, _, _, _)
atomEnds(atoms, k, s, p) ==
  IF k > Len(atoms) THEN {p}
  ELSE LET run == RunEnd(s, p, {atoms[k].ch})
           stops == IF atoms[k].plus THEN (p + 1)..(run + 1)
                    ELSE IF run >= p THEN {p + 1} ELSE {}
       IN UNION {atomEnds(atoms, k + 1, s, q) : q \in stops}

\* the expression matched at position p of imp: <<>> or the group and the
\* last position of the match.  After the name a '.' and a word character
\* must follow; no two ends of the name can both be followed by a '.'.
matchSub(atoms, imp, p) ==
  LET ends == {q \in atomEnds(atoms, 1, imp, p) :
                 /\ q + 1 <= Len(imp)
                 /\ imp[q] = "."
                 /\ imp[q + 1] \in WordChars}
  IN IF ends = {} THEN <<>>
     ELSE LET q == CHOOSE x \in ends : TRUE
          IN <<[sub |-> SubSeq(imp, q + 1, WordRunEnd(imp, q + 1)),
                end |-> WordRunEnd(imp, q + 1)]>>

\* imp.matchAll(pattern), from position p on: the groups, added to subs
RECURSIVE subsOfImport(_, _, _, _)
subsOfImport(subs, atoms, imp, p) ==
  IF p > Len(imp) THEN subs
  ELSE LET m == matchSub(atoms, imp, p)
       IN IF m = <<>> THEN subsOfImport(subs, atoms, imp, p + 1)
          ELSE subsOfImport(setAdd(subs, m[1].sub), atoms, imp, m[1].end + 1)

RECURSIVE subsFrom(_, _, _, _)
subsFrom(subs, atoms, imports, n) ==
  IF n > Len(imports) THEN subs
  ELSE subsFrom(subsOfImport(subs, atoms, imports[n], 1), atoms, imports, n + 1)

\* detectSubComponents throws when there is an import and the name is not an
\* expression
detectSubComponentsThrows(imports, mainComponent) ==
  imports # <<>> /\ patternThrows(mainComponent)

detectSubComponents(imports, mainComponent) ==
  subsFrom(<<>>, patternAtoms(mainComponent), imports, 1)

ExampleLangs == {<<"t", "s", "x">>, <<"t", "s">>, <<"j", "s", "x">>, <<"j", "s">>}
ExampleTitle == <<"E", "x", "a", "m", "p", "l", "e">>

\* headingMap.has(i) and headingMap.get(i): the text set last for the key
headingAt(headings, i) ==
  LET hs == {h \in 1..Len(headings) : headings[h].idx = i}
  IN IF hs = {} THEN <<>> ELSE <<headings[SetMax(hs)].text>>

\* the title carried over from the block before
titleKept(headings, blockIdx, current) == current

\* for (let i = block.idx - 1; i >= 0; i--) if (headingMap.has(i)) { ...; break }
titleFor(headings, blockIdx, current) ==
  LET before == {i \in 0..blockIdx - 1 : headingAt(headings, i) # <<>>}
  IN IF before = {} THEN current ELSE headingAt(headings, SetMax(before))[1]

\* the loop of extractExamples, from block n on
RECURSIVE examplesFrom(_, _, _, _)
examplesFrom(headings, codeBlocks, n, current) ==
  IF n > Len(codeBlocks) THEN <<>>
  ELSE LET block == codeBlocks[n]
           title == titleFor(headings, block.idx, current)
       IN (IF block.lang \in ExampleLangs
           THEN <<[title |-> title, lang |-> block.lang, code |-> block.code,
                   filename |-> block.filename]>>
           ELSE <<>>) \o examplesFrom(headings, codeBlocks, n + 1, title)

extractExamples(headings, codeBlocks) ==
  examplesFrom(headings, codeBlocks, 1, ExampleTitle)

NameHeaders == {<<"p", "r", "o", "p">>, <<"n", "a", "m", "e">>,
                <<"p", "r", "o", "p", "e", "r", "t", "y">>}
TypeHeaders == {<<"t", "y", "p", "e">>}
NameKeys == <<<<"P", "r", "o", "p">>, <<"N", "a", "m", "e">>,
              <<"P", "r", "o", "p", "e", "r", "t", "y">>, <<"p", "r", "o", "p">>>>
TypeKeys == <<<<"T", "y", "p", "e">>, <<"t", "y", "p", "e">>>>
DescriptionKeys == <<<<"D", "e", "s", "c", "r", "i", "p", "t", "i", "o", "n">>,
                     <<"d", "e", "s", "c", "r", "i", "p", "t", "i", "o", "n">>,
                     <<"D", "e", "s", "c">>>>
DefaultKeys == <<<<"D", "e", "f", "a", "u", "l", "t">>,
                 <<"d", "e", "f", "a", "u", "l", "t">>>>

\* row[k1] || row[k2] || ... || '': the first value that is neither undefined
\* nor empty
firstOf(row, keys) ==
  LET hits == {k \in 1..Len(keys) : keys[k] \in DOMAIN row /\ row[keys[k]] # <<>>}
  IN IF hits = {} THEN <<>> ELSE row[keys[SetMin(hits)]]

\* the props of the rows of a table, from row n on
RECURSIVE propsOfRows(_, _)
propsOfRows(rows, n) ==
  IF n > Len(rows) THEN <<>>
  ELSE LET name == firstOf(rows[n], NameKeys)
           defaultVal == firstOf(rows[n], DefaultKeys)
       IN (IF name # <<>>
           THEN <<[name |-> stripBackticks(name),
                   type |-> stripBackticks(firstOf(rows[n], TypeKeys)),
                   description |-> firstOf(rows[n], DescriptionKeys),
                   default |-> IF defaultVal # <<>> THEN <<defaultVal>> ELSE <<>>]>>
           ELSE <<>>) \o propsOfRows(rows, n + 1)

hasName(table) ==
  \E i \in 1..Len(table.headers) : toLowerCase(table.headers[i]) \in NameHeaders
hasType(table) ==
  \E i \in 1..Len(table.headers) : toLowerCase(table.headers[i]) \in TypeHeaders

\* extractProps, from table n on
RECURSIVE propsFrom(_, _)
propsFrom(tables, n) ==
  IF n > Len(tables) THEN <<>>
  ELSE (IF hasName(tables[n]) /\ hasType(tables[n])
        THEN propsOfRows(tables[n].rows, 1) ELSE <<>>) \o propsFrom(tables, n + 1)

extractProps(tables) == propsFrom(tables, 1)

\* headings.find((h) => h.level === 1): <<>> when undefined
mainHeadingOf(d) ==
  LET ones == {i \in 1..Len(d.headings) : d.headings[i].level = 1}
  IN IF ones = {} THEN <<>> ELSE <<d.headings[SetMin(ones)]>>

\* extractComponents throws the syntax error of new RegExp
extractComponentsThrows(d) ==
  /\ mainHeadingOf(d) # <<>>
  /\ detectSubComponentsThrows(extractImports(d.codeBlocks),
                               removeWhitespace(mainHeadingOf(d)[1].text))

SyntaxError == <<"S", "y", "n", "t", "a", "x", "E", "r", "r", "o", "r">>

extractComponents(d) ==
  IF mainHeadingOf(d) = <<>> THEN <<>>
  ELSE LET mainHeading == mainHeadingOf(d)[1]
           componentName == removeWhitespace(mainHeading.text)
           imports == extractImports(d.codeBlocks)
       IN <<[name |-> componentName,
             slug |-> mainHeading.slug,
             imports |-> imports,
             examples |-> extractExamples(d.headings, d.codeBlocks),
             props |-> extractProps(d.tables),
             subComponents |-> detectSubComponents(imports, componentName)]>>

\* the code blocks of exactly the language
extractCodeByLangExact(d, lang) == byLangExact(d, lang)

\* extractCodeByLang: doc.byLang(lang)
extractCodeByLang(d, lang) == byLang(d, lang)

\* example.filename || `${example.title}.${example.lang}`
snippetKey(example) ==
  IF example.filename # <<>> /\ example.filename[1] # <<>>
  THEN example.filename[1]
  ELSE example.title \o <<".">> \o example.lang

\* Map.set that keeps the value set first for a key
mapSetFirst(map, key, value) ==
  IF \E i \in 1..Len(map) : map[i].key = key THEN map
  ELSE Append(map, [key |-> key, value |-> value])

\* Map.set: the entries of a Map, in insertion order
mapSet(map, key, value) ==
  IF \E i \in 1..Len(map) : map[i].key = key
  THEN [i \in 1..Len(map) |->
          IF map[i].key = key THEN [key |-> key, value |-> value] ELSE map[i]]
  ELSE Append(map, [key |-> key, value |-> value])

RECURSIVE snippetsFrom(_, _, _)
snippetsFrom(snippets, examples, n) ==
  IF n > Len(examples) THEN snippets
  ELSE snippetsFrom(mapSet(snippets, snippetKey(examples[n]), examples[n].code),
                    examples, n + 1)

extractSnippets(d) == snippetsFrom(<<>>, extractExamples(d.headings, d.codeBlocks), 1)

\* prop.default !== undefined ? '?' : '', with every field marked
optionalAlways(prop) == <<"?">>

\* prop.default !== undefined ? '?' : ''
optional(prop) == IF prop.default # <<>> THEN <<"?">> ELSE <<>>

\* the lines of the props from prop n on: a comment line when the prop has a
\* description, then the field
RECURSIVE propLines(_, _)
propLines(props, n) ==
  IF n > Len(props) THEN <<>>
  ELSE (IF props[n].description # <<>>
        THEN <<<<" ", " ", "/", "*", "*", " ">> \o props[n].description
                 \o <<" ", "*", "/">>>>
        ELSE <<>>)
       \o <<<<" ", " ">> \o props[n].name \o optional(props[n]) \o <<":", " ">>
              \o props[n].type \o <<";">>>>
       \o propLines(props, n + 1)

generateTypes(component) ==
  Join(<<<<"/", "/", " ", "A", "u", "t", "o", "-", "g", "e", "n", "e", "r", "a", "t", "e", "d", " ", "t", "y", "p", "e", "s", " ", "f", "o", "r", " ">> \o component.name,
         <<>>>>
       \o (IF Len(component.props) > 0
           THEN <<<<"e", "x", "p", "o", "r", "t", " ", "i", "n", "t", "e", "r", "f", "a", "c", "e", " ">> \o component.name
                    \o <<"P", "r", "o", "p", "s", " ", "{">>>>
                \o propLines(component.props, 1) \o <<<<"}">>>>
           ELSE <<>>),
       <<"\n">>)

(***************************************************************************)
(* The extractor applied to documents the parser returns                   *)
(***************************************************************************)
\* The documents given to the extractor are the ParsedDoc values of up to
\* MaxSectionsExtract sections, each built as the parser builds it from one
\* of these accumulators.
MaxSectionsExtract == 3

ExtractHeadings ==
  <<[level |-> 1, text |-> <<"A", " ", "b">>],
    [level |-> 2, text |-> <<"S">>],
    [level |-> 1, text |-> <<"C", "+", "+">>]>>

ExtractCodes ==
  <<[lang |-> <<"t", "s">>, code |-> <<"/", "/", " ", "u", ".", "t", "\n", "x">>],
    [lang |-> <<"t", "s", "x">>, code |-> <<"y">>],
    [lang |-> <<"t", "s", "x">>, code |-> <<"w">>],
    [lang |-> <<"c">>, code |-> <<"z">>],
    [lang |-> <<"j", "s", "x">>,
     code |-> ImportWord \o <<" ", "{", "A", "b", ".", "c", "}", " ">> \o FromWord
                \o <<" ", "'", "m", "'">>]>>

ExtractTables ==
  <<[headers |-> <<<<"P", "r", "o", "p">>, <<"T", "y", "p", "e">>,
                   <<"D", "e", "f", "a", "u", "l", "t">>,
                   <<"D", "e", "s", "c", "r", "i", "p", "t", "i", "o", "n">>>>,
     rows |-> <<<<<<"~", "a", "~">>, <<"T">>, <<>>, <<"D">>>>,
                <<<<>>, <<"U">>, <<"d">>, <<>>>>,
                <<<<"e">>, <<"~", "V", "~">>, <<"d">>, <<>>>>>>],
    [headers |-> <<<<"n", "a", "m", "e">>, <<"t", "y", "p", "e">>>>,
     rows |-> <<<<<<"n">>, <<"t">>>>>>],
    [headers |-> <<<<"X">>, <<"T", "y", "p", "e">>>>,
     rows |-> <<<<<<"x">>, <<"T">>>>>>]>>

ExtractPicks ==
  ({"heading"} \X (1..Len(ExtractHeadings)))
    \cup ({"code"} \X (1..Len(ExtractCodes)))
    \cup ({"table"} \X (1..Len(ExtractTables)))

\* the section the parser builds of the accumulator picked, at index i
SectionOfPick(pick, i) ==
  CASE pick[1] = "heading" -> HeadingSection(ExtractHeadings[pick[2]], i)
    [] pick[1] = "code" -> CodeSection(ExtractCodes[pick[2]], i)
    [] OTHER -> TableSection(ExtractTables[pick[2]], i)

ExtractedFamilies == {"extract"}
ExtractLangArgs == {<<"t", "s">>, <<"t", "s", "x">>, <<"r">>}

InitExtract ==
  /\ family \in ExtractedFamilies
  /\ stack = <<>>
  /\ midText = FALSE
  /\ opened = 0
  /\ closed = 0
  /\ texts = 0
  /\ emitted = {}
  /\ pc = "done"
  /\ \E n \in 0..MaxSectionsExtract :
       \E picks \in [1..n -> ExtractPicks] :
         sections = [i \in 1..n |-> SectionOfPick(picks[i], i - 1)]
  /\ idx = Len(sections)
  /\ currentHeading = <<>>
  /\ currentCode = <<>>
  /\ currentTable = <<>>
  /\ currentList = <<>>
  /\ currentRow = <<>>
  /\ currentListItem = <<>>
  /\ inThead = FALSE
  /\ cellIndex = 0
  /\ doc = <<ParsedDoc(sections, UnknownSource)>>
  /\ call = [entry |-> "parseMarkdown", arg |-> <<>>, io |-> "none", status |-> 0]
  /\ error = <<>>
  /\ query = <<>>
  /\ events = <<>>
  /\ first = <<>>
  /\ calls = 0
  /\ other = <<>>

\* a function of the extractor is applied to the ParsedDoc; it returns found
\* or throws raised
Extract(name, arg, found, raised) ==
  /\ pc = "done"
  /\ family \in ExtractedFamilies
  /\ query = <<>>
  /\ query' = <<[name |-> name, arg |-> arg, result |-> found]>>
  /\ error' = raised
  /\ UNCHANGED <<env, state, pc, doc, call, replay>>

ExtractComponents ==
  IF extractComponentsThrows(doc[1])
  THEN Extract("extractComponents", <<>>, <<>>, <<SyntaxError>>)
  ELSE Extract("extractComponents", <<>>, extractComponents(doc[1]), <<>>)

ExtractCodeByLang ==
  \E lang \in ExtractLangArgs :
    Extract("extractCodeByLang", lang, extractCodeByLang(doc[1], lang), <<>>)

ExtractSnippets == Extract("extractSnippets", <<>>, extractSnippets(doc[1]), <<>>)

\* generateTypes of the component extracted from the document
GenerateTypes ==
  /\ ~extractComponentsThrows(doc[1])
  /\ \E component \in {extractComponents(doc[1])[c] :
                          c \in 1..Len(extractComponents(doc[1]))} :
       Extract("generateTypes", component, generateTypes(component), <<>>)

NextExtract ==
  ExtractComponents \/ ExtractCodeByLang \/ ExtractSnippets \/ GenerateTypes

SpecExtract == InitExtract /\ [][NextExtract]_vars

(***************************************************************************)
(* Properties                                                              *)
(***************************************************************************)
IsWhite(s) == \A i \in 1..Len(s) : s[i] \in Space

\* t is s without its leading and trailing white space
IsTrimOf(t, s) ==
  /\ t # <<>> => t[1] \notin Space /\ t[Len(t)] \notin Space
  /\ \E a \in 0..Len(s) : \E b \in a..Len(s) :
       /\ IsWhite(SubSeq(s, 1, a))
       /\ t = SubSeq(s, a + 1, b)
       /\ IsWhite(SubSeq(s, b + 1, Len(s)))

\* C1: the section at position i of sections has idx i, counting from 0 (so
\* the indices are unique, increasing and without gaps), and the counter idx
\* equals the number of sections emitted so far.
C1_IndexIsPosition ==
  /\ idx = Len(sections)
  /\ \A i \in 1..Len(sections) : sections[i].idx = i - 1

\* three sections of two kinds have been emitted
C1_Witness ==
  /\ Len(sections) = 3
  /\ sections[1].type # sections[2].type
  /\ sections[3].idx = 2

\* v holds exactly the sections of secs of the given type, in the order of secs
IsViewOf(v, secs, type) ==
  /\ \A k \in 1..Len(v) : v[k].type = type
  /\ Len(v) = Cardinality({i \in 1..Len(secs) : secs[i].type = type})
  /\ \E f \in [1..Len(v) -> 1..Len(secs)] :
       /\ \A k \in 1..Len(v) : v[k] = secs[f[k]]
       /\ \A k, l \in 1..Len(v) : k < l => f[k] < f[l]

\* C2: in the ParsedDoc returned, headings, codeBlocks and tables are exactly
\* the heading, code and table sections, in the order of sections and as the
\* same records, and total is the length of sections.
C2_ViewsAreFilters ==
  pc = "done" =>
    /\ doc[1].sections = sections
    /\ doc[1].total = Len(doc[1].sections)
    /\ IsViewOf(doc[1].headings, doc[1].sections, "heading")
    /\ IsViewOf(doc[1].codeBlocks, doc[1].sections, "code")
    /\ IsViewOf(doc[1].tables, doc[1].sections, "table")

\* a document of three sections, a table before a heading, has been returned
C2_Witness ==
  /\ pc = "done"
  /\ doc[1].total = 3
  /\ doc[1].sections[1].type = "table"
  /\ doc[1].sections[2].type = "heading"
  /\ Len(doc[1].tables) + Len(doc[1].headings) + Len(doc[1].codeBlocks) = 3
  /\ doc[1].headings # <<>>

\* the sections whose finalizing close tag came before that of e
EarlierThan(e) == {f \in emitted : f.closedBefore < e.closedBefore}

\* C3: a section gets its index at its finalizing close tag: its idx and its
\* position in sections are the number of sections finalized by an earlier
\* close tag, whatever the order in which the elements opened.
C3_ClosingOrder ==
  /\ Cardinality(emitted) = Len(sections)
  /\ \A e \in emitted :
       /\ e.idx = Cardinality(EarlierThan(e))
       /\ \E p \in 1..Len(sections) :
            /\ p - 1 = Cardinality(EarlierThan(e))
            /\ sections[p].idx = e.idx
  /\ \A e1, e2 \in emitted :
       e1.closedBefore < e2.closedBefore => e1.idx < e2.idx

\* a section of one kind opened and closed while a section of another kind
\* was open: it opened later and has the smaller idx
C3_Witness ==
  \E e1, e2 \in emitted :
    /\ e1.no > e2.no
    /\ e1.idx < e2.idx
    /\ e1.idx + 1 <= Len(sections) /\ e2.idx + 1 <= Len(sections)
    /\ sections[e1.idx + 1].type # sections[e2.idx + 1].type
HeadingTagSeq == <<"h1", "h2", "h3", "h4", "h5", "h6">>

\* the step delivers the close tag of a heading element
HeadingCloseStep ==
  /\ pc = "parsing"
  /\ stack # <<>>
  /\ Top.tag \in HeadingTags
  /\ closed' = closed + 1

\* the step pushes a section of the given type
Pushes(type) ==
  /\ Len(sections') > Len(sections)
  /\ sections'[Len(sections')].type = type

\* C4: the close tag of a heading element that neither encloses nor is
\* enclosed by another heading pushes exactly one heading section: its level
\* is the digit of the tag, its text the trimmed text delivered between the
\* open and the close tag (empty when none was), its slug the slug of that
\* text, its raw level times "#", a space and the text; the heading state is
\* idle afterwards; and no other step pushes a heading section.
C4_HeadingAtClose ==
  [][/\ (HeadingCloseStep /\ ~Top.same) =>
          /\ Len(sections') = Len(sections) + 1
          /\ SubSeq(sections', 1, Len(sections)) = sections
          /\ LET s == sections'[Len(sections')]
             IN /\ s.type = "heading"
                /\ s.level \in 1..6
                /\ HeadingTagSeq[s.level] = Top.tag
                /\ IsTrimOf(s.text, Top.seen)
                /\ s.slug = slugify(s.text)
                /\ Len(s.raw) = s.level + 1 + Len(s.text)
                /\ \A i \in 1..s.level : s.raw[i] = "#"
                /\ s.raw[s.level + 1] = " "
                /\ SubSeq(s.raw, s.level + 2, Len(s.raw)) = s.text
          /\ currentHeading' = <<>>
     /\ Pushes("heading") => HeadingCloseStep]_vars

\* an h6 whose text came in three chunks and was trimmed, then an h1 without
\* text, have been emitted
C4_Witness ==
  /\ Len(sections) = 2
  /\ sections[1].type = "heading" /\ sections[2].type = "heading"
  /\ sections[1].level = 6
  /\ sections[1].text = <<"A", "!", "b">>
  /\ sections[1].raw = <<"#", "#", "#", "#", "#", "#", " ", "A", "!", "b">>
  /\ sections[2].level = 1
  /\ sections[2].text = <<>>
  /\ sections[2].raw = <<"#", " ">>
  /\ currentHeading = <<>>
  /\ texts = 3
\* the step delivers the close tag of a pre element
PreCloseStep ==
  /\ pc = "parsing"
  /\ stack # <<>>
  /\ Top.tag = "pre"
  /\ closed' = closed + 1

\* what the close tag of the pre element on top of the stack does, by C5
PreCloseEffect ==
  /\ IF Top.k > 0
     THEN /\ Len(sections') = Len(sections) + 1
          /\ SubSeq(sections', 1, Len(sections)) = sections
          /\ sections'[Len(sections')].type = "code"
          /\ Top.child # <<>>
          /\ IsTrimOf(sections'[Len(sections')].code, Top.child[1])
     ELSE sections' = sections
  /\ currentCode' = <<>>

\* C5 as claimed: the close tag of every pre element pushes exactly one code
\* section when the element has a code child, with the trimmed text of the
\* code element as code, and pushes nothing when it has none; no other close
\* tag pushes a code section; the code state is idle afterwards.
C5_EveryPre ==
  [][/\ PreCloseStep => PreCloseEffect
     /\ Pushes("code") => PreCloseStep]_vars

\* C5 as amended: the same, for every pre element that neither encloses nor
\* is enclosed by another pre element (with several code children, the text
\* is that of the last one).
C5_PreNotNested ==
  [][/\ (PreCloseStep /\ ~Top.same) => PreCloseEffect
     /\ Pushes("code") => PreCloseStep]_vars

\* a pre block whose code element got two chunks has been closed: one code
\* section with the trimmed text, and the code state idle
C5_Witness ==
  /\ stack = <<>>
  /\ closed = 2
  /\ Len(sections) = 1
  /\ sections[1].type = "code"
  /\ sections[1].code = <<"/", "/", " ", "a", ".", "t", "\n", "x">>
  /\ currentCode = <<>>

\* the first place of className where language- and a word character stand
IsFirstToken(className, p) ==
  LET n == Len(LanguagePrefix)
      At(q) == /\ q + n <= Len(className)
               /\ SubSeq(className, q, q + n - 1) = LanguagePrefix
               /\ className[q + n] \in WordChars
  IN At(p) /\ \A q \in 1..(p - 1) : ~At(q)

\* lang is what C6 says of the class attribute attr
IsLangOf(lang, attr) ==
  LET className == IF attr = <<>> THEN <<>> ELSE attr[1]
      n == Len(LanguagePrefix)
  IN IF \E p \in 1..Len(className) : IsFirstToken(className, p)
     THEN \E p \in 1..Len(className) :
            /\ IsFirstToken(className, p)
            /\ lang # <<>>
            /\ \A i \in 1..Len(lang) : lang[i] \in WordChars
            /\ p + n + Len(lang) - 1 <= Len(className)
            /\ SubSeq(className, p + n, p + n + Len(lang) - 1) = lang
            /\ \/ p + n + Len(lang) > Len(className)
               \/ className[p + n + Len(lang)] \notin WordChars
     ELSE lang = <<"t", "e", "x", "t">>

\* the step delivers the open tag of a code element whose parent is a pre
CodeOpenStep ==
  /\ pc = "parsing"
  /\ stack # <<>>
  /\ Top.tag = "pre"
  /\ opened' = opened + 1
  /\ stack'[Len(stack')].tag = "code"

\* C6: the open tag of a code element in a pre sets the language to the token
\* that follows language- in its class attribute, and to "text" when there is
\* no attribute or no such token; the section pushed at the close of the pre
\* has that language, and its raw is the fence with the language, a line
\* feed, the trimmed code, a line feed and the fence.
C6_Language ==
  [][/\ CodeOpenStep =>
          /\ currentCode' # <<>>
          /\ currentCode'[1].code = <<>>
          /\ IsLangOf(currentCode'[1].lang, stack'[Len(stack')].attr)
     /\ (PreCloseStep /\ currentCode # <<>>) =>
          /\ Pushes("code")
          /\ LET s == sections'[Len(sections')]
             IN /\ s.lang = currentCode[1].lang
                /\ IsTrimOf(s.code, currentCode[1].code)
                /\ s.raw = <<"~", "~", "~">> \o s.lang \o <<"\n">> \o s.code
                             \o <<"\n", "~", "~", "~">>]_vars

\* a block whose class was "a language-c-b" has been emitted with language c
C6_Witness ==
  /\ Len(sections) = 1
  /\ sections[1].type = "code"
  /\ sections[1].lang = <<"c">>
  /\ sections[1].raw = <<"~", "~", "~", "c", "\n", "x", "\n", "~", "~", "~">>

\* the first line of code
FirstLine(code) ==
  LET feeds == {i \in 1..Len(code) : code[i] = "\n"}
  IN IF feeds = {} THEN code ELSE SubSeq(code, 1, SetMin(feeds) - 1)

\* the text after the comment marker of a line, trimmed; <<>> for a line that
\* is no // or # comment
CommentBody(line) ==
  IF Len(line) >= 2 /\ SubSeq(line, 1, 2) = <<"/", "/">>
  THEN <<trim(SubSeq(line, 3, Len(line)))>>
  ELSE IF Len(line) >= 1 /\ line[1] = "#"
  THEN <<trim(SubSeq(line, 2, Len(line)))>>
  ELSE <<>>

\* name.ext: something, a dot, and an extension of word characters
IsFileName(name) ==
  \E d \in 2..(Len(name) - 1) :
    /\ name[d] = "."
    /\ \A i \in (d + 1)..Len(name) : name[i] \in WordChars

\* C7: every code section has a filename exactly when the first line of its
\* code is a // or # comment that names a file with an extension, and the
\* filename is then that name; also for a block of one line.
C7_FilenameOfFirstLine ==
  \A i \in 1..Len(sections) :
    sections[i].type = "code" =>
      LET body == CommentBody(FirstLine(sections[i].code))
      IN sections[i].filename =
           IF body # <<>> /\ IsFileName(body[1]) THEN body ELSE <<>>
\* the step delivers the close tag of a tr element while a table is current
TrCloseStep ==
  /\ pc = "parsing"
  /\ stack # <<>>
  /\ Top.tag = "tr"
  /\ closed' = closed + 1
  /\ currentTable # <<>>
  /\ Innermost({"table"}) > 0

\* C8: at the close of a tr in an open table the row buffer becomes headers
\* when no row was closed before in this table or the within-head flag is
\* set, and is appended to rows otherwise.
C8_FirstRowOrHead ==
  [][TrCloseStep =>
       /\ currentTable' # <<>>
       /\ IF stack[Innermost({"table"})].k = 0 \/ inThead
          THEN /\ currentTable'[1].headers = currentRow
               /\ currentTable'[1].rows = currentTable[1].rows
          ELSE /\ currentTable'[1].rows = Append(currentTable[1].rows, currentRow)
               /\ currentTable'[1].headers = currentTable[1].headers]_vars

\* the step delivers the close tag of a table element while a table is current
TableCloseStep ==
  /\ pc = "parsing"
  /\ stack # <<>>
  /\ Top.tag = "table"
  /\ closed' = closed + 1
  /\ currentTable # <<>>

\* the trimmed text of cell i of a row's cell list, "" for a missing cell
TrimmedCell(cells, i, text) ==
  IF i <= Len(cells) THEN IsTrimOf(text, cells[i]) ELSE text = <<>>

\* the last position of header h in headers
LastOf(headers, h) == SetMax({i \in 1..Len(headers) : headers[i] = h})

\* C9 as claimed: in the table section pushed, every row mapping has the
\* headers as its keys and maps headers[i] to the trimmed text of cell i of
\* the row, "" when the row has no cell i; cells beyond the headers are
\* dropped.
C9_EveryHeaderItsCell ==
  [][TableCloseStep =>
       /\ Pushes("table")
       /\ LET s == sections'[Len(sections')]
              t == currentTable[1]
          IN /\ s.headers = t.headers
             /\ Len(s.rows) = Len(t.rows)
             /\ \A r \in 1..Len(t.rows) :
                  /\ DOMAIN s.rows[r] = {t.headers[i] : i \in 1..Len(t.headers)}
                  /\ \A i \in 1..Len(t.headers) :
                       TrimmedCell(t.rows[r], i, s.rows[r][t.headers[i]])]_vars

\* C9 as amended: the same, but a header maps to the trimmed text of the cell
\* at the last position where that header stands in headers (its own
\* position when it stands there once).
C9_LastHeaderItsCell ==
  [][TableCloseStep =>
       /\ Pushes("table")
       /\ LET s == sections'[Len(sections')]
              t == currentTable[1]
          IN /\ s.headers = t.headers
             /\ Len(s.rows) = Len(t.rows)
             /\ \A r \in 1..Len(t.rows) :
                  /\ DOMAIN s.rows[r] = {t.headers[i] : i \in 1..Len(t.headers)}
                  /\ \A i \in 1..Len(t.headers) :
                       TrimmedCell(t.rows[r], LastOf(t.headers, t.headers[i]),
                                   s.rows[r][t.headers[i]])]_vars

\* a table with two different headers and a row of one cell has been emitted:
\* the row maps the first header to the trimmed cell and the second to ""
C9_Witness ==
  \E n \in 1..Len(sections) :
    /\ sections[n].type = "table"
    /\ sections[n].headers = <<<<"a">>, <<" ", "b">>>>
    /\ Len(sections[n].rows) = 1
    /\ sections[n].rows[1][<<"a">>] = <<"b">>
    /\ sections[n].rows[1][<<" ", "b">>] = <<>>

\* C10: when the k-th cell of a row opens the cell position is k - 1, and the
\* text of the k-th cell is what slot k - 1 of the row buffer holds.
C10_OneStepPerCell ==
  (/\ pc = "parsing"
   /\ Len(stack) >= 2
   /\ Top.tag \in CellTags
   /\ stack[Len(stack) - 1].tag = "tr") =>
     /\ Top.seen = <<>> => cellIndex = Top.k - 1
     /\ (Top.seen # <<>> /\ ~midText) =>
          /\ Len(currentRow) >= Top.k
          /\ currentRow[Top.k] = Top.seen

\* the step delivers the close tag of a ul or ol element
ListCloseStep ==
  /\ pc = "parsing"
  /\ stack # <<>>
  /\ Top.tag \in ListTags
  /\ closed' = closed + 1

\* the line of item n of a list section
ListLine(ordered, item, n) ==
  IF ordered
  THEN NumStr(n) \o <<".", " ">> \o item
  ELSE <<"-", " ">> \o item

\* what the close tag of the list on top of the stack does, by C11: lis are
\* the li elements closed in it
ListCloseEffect(lis) ==
  /\ Len(sections') = Len(sections) + 1
  /\ SubSeq(sections', 1, Len(sections)) = sections
  /\ LET s == sections'[Len(sections')]
     IN /\ s.type = "list"
        /\ s.ordered = (Top.tag = "ol")
        /\ Len(s.items) = Len(lis)
        /\ \A n \in 1..Len(lis) : IsTrimOf(s.items[n], lis[n].text)
        /\ s.raw = Join([n \in 1..Len(s.items) |->
                           ListLine(s.ordered, s.items[n], n)], <<"\n">>)

\* C11 as claimed: the close tag of a ul or ol element that neither encloses
\* nor is enclosed by another list, and in which at least one li was closed,
\* pushes exactly one list section: ordered exactly for ol, one item per
\* closed li in document order, each the trimmed text of its li, and raw the
\* items as "N. item" (N from 1) when ordered and "- item" otherwise, joined
\* by line feeds; no other step pushes a list section.
C11_EveryList ==
  [][/\ (ListCloseStep /\ ~Top.same /\ Top.child # <<>>) =>
          ListCloseEffect(Top.child)
     /\ Pushes("list") => ListCloseStep]_vars

\* C11 as amended: the same, for the lists whose li elements are not nested
\* in one another.
C11_ListOfFlatItems ==
  [][/\ (/\ ListCloseStep /\ ~Top.same /\ Top.child # <<>>
         /\ \A n \in 1..Len(Top.child) : ~Top.child[n].same) =>
          ListCloseEffect(Top.child)
     /\ Pushes("list") => ListCloseStep]_vars

\* an ol of two li elements, whose texts were trimmed, has been emitted
C11_Witness ==
  /\ stack = <<>>
  /\ Len(sections) = 1
  /\ sections[1].type = "list"
  /\ sections[1].ordered
  /\ sections[1].items = <<<<"a">>, <<"b">>>>
  /\ sections[1].raw = <<"1", ".", " ", "a", "\n", "2", ".", " ", "b">>
  /\ currentList = <<>>

\* C12: sections never holds a list section without items, nor a content
\* section whose text is empty or white space only.
C12_NoEmptySection ==
  \A i \in 1..Len(sections) :
    /\ sections[i].type = "list" => Len(sections[i].items) > 0
    /\ sections[i].type = "content" =>
         /\ sections[i].text # <<>>
         /\ ~IsWhite(sections[i].text)

\* a list without items has been closed after a text chunk was delivered,
\* and nothing was emitted
C12_Witness ==
  /\ family = "list"
  /\ stack = <<>>
  /\ closed >= 1
  /\ texts >= 1
  /\ currentList # <<>>
  /\ currentList[1].items = <<>>
  /\ sections = <<>>

\* the step delivers the close tag of a p element
PCloseStep ==
  /\ pc = "parsing"
  /\ stack # <<>>
  /\ Top.tag = "p"
  /\ closed' = closed + 1

\* C13: the close tag of a p element pushes, when the text delivered between
\* its open and its close tag is not empty once trimmed, exactly one content
\* section whose text and raw are that trimmed text, and pushes nothing
\* otherwise; no other step pushes a content section.
C13_ParagraphAtClose ==
  [][/\ PCloseStep =>
          IF ~IsWhite(Top.seen)
          THEN /\ Len(sections') = Len(sections) + 1
               /\ SubSeq(sections', 1, Len(sections)) = sections
               /\ sections'[Len(sections')].type = "content"
               /\ IsTrimOf(sections'[Len(sections')].text, Top.seen)
               /\ sections'[Len(sections')].raw = sections'[Len(sections')].text
          ELSE sections' = sections
     /\ Pushes("content") => PCloseStep]_vars

\* the positions in secs of the heading sections of level 1
LevelOnes(secs) ==
  {i \in 1..Len(secs) : secs[i].type = "heading" /\ secs[i].level = 1}

\* C14: the title of the ParsedDoc returned is the text of the first heading
\* section of level 1 in the order of sections, and the source when there is
\* none; source is the value passed to parseMarkdown, and "unknown" when the
\* argument was omitted.
C14_Title ==
  pc = "done" =>
    /\ LET ones == LevelOnes(doc[1].sections)
       IN /\ ones # {} =>
               \E i \in ones : /\ \A j \in ones : i <= j
                                /\ doc[1].title = doc[1].sections[i].text
          /\ ones = {} => doc[1].title = doc[1].source
    /\ call.entry = "parseMarkdown" =>
         IF call.arg = <<>>
         THEN doc[1].source = <<"u", "n", "k", "n", "o", "w", "n">>
         ELSE doc[1].source = call.arg[1]

\* a document with two headings of level 1 of different texts has been
\* returned by a call that passed a source: the title is the first text
C14_Witness ==
  /\ pc = "done"
  /\ call.entry = "parseMarkdown" /\ call.arg # <<>>
  /\ Len(doc[1].headings) = 2
  /\ doc[1].headings[1].level = 1 /\ doc[1].headings[2].level = 1
  /\ doc[1].headings[1].text # doc[1].headings[2].text
  /\ doc[1].title = doc[1].headings[1].text
  /\ doc[1].title # <<>>

\* a document without a heading of level 1 has been returned by a call that
\* omitted the source: the title is "unknown"
C14_WitnessNoTitle ==
  /\ pc = "done"
  /\ call.entry = "parseMarkdown" /\ call.arg = <<>>
  /\ doc[1].headings # <<>>
  /\ doc[1].title = UnknownSource

\* v holds exactly the elements of secs at the positions ps, in the order
\* of secs
IsFilterAt(v, secs, ps) ==
  /\ Len(v) = Cardinality(ps)
  /\ \A i \in ps : v[Cardinality({j \in ps : j <= i})] = secs[i]

\* lang is arg or begins with arg
HasPrefix(lang, arg) == \E n \in 0..Len(lang) : SubSeq(lang, 1, n) = arg

\* C15: byLang(lang) returns exactly the code sections whose language is
\* lang or begins with lang, in the order of sections.
C15_ByLang ==
  (query # <<>> /\ query[1].name = "byLang") =>
    IsFilterAt(query[1].result, doc[1].sections,
               {i \in 1..Len(doc[1].sections) :
                  /\ doc[1].sections[i].type = "code"
                  /\ HasPrefix(doc[1].sections[i].lang, query[1].arg)})

\* byLang("t") has returned the only block of a document, of language "ts":
\* the language starts with the argument and is not equal to it
C15_Witness ==
  /\ query # <<>>
  /\ query[1].name = "byLang"
  /\ query[1].arg = <<"t">>
  /\ Len(doc[1].codeBlocks) = 1
  /\ query[1].result = doc[1].codeBlocks
  /\ query[1].result[1].lang = <<"t", "s">>

\* byLang("ts") has returned nothing of a document whose only block is of
\* language "text"
C15_WitnessNoPrefix ==
  /\ query # <<>>
  /\ query[1].name = "byLang"
  /\ query[1].arg = <<"t", "s">>
  /\ Len(doc[1].codeBlocks) = 1
  /\ doc[1].codeBlocks[1].lang = DefaultLang
  /\ query[1].result = <<>>

\* the two characters are the same, or the same letter in the two cases
SameLetter(a, b) ==
  a = b \/ \E n \in 1..Len(LowerSeq) : {a, b} = {LowerSeq[n], UpperSeq[n]}

\* q stands in s at some position, the case of the letters aside
ContainsAnyCase(s, q) ==
  \E i \in 0..Len(s) - Len(q) : \A k \in 1..Len(q) : SameLetter(s[i + k], q[k])

\* C16: search(query) returns exactly the sections whose raw contains the
\* query, the case of the letters aside, in the order of sections (so
\* nothing, and no error, when no section matches).
C16_Search ==
  (query # <<>> /\ query[1].name = "search") =>
    IsFilterAt(query[1].result, doc[1].sections,
               {i \in 1..Len(doc[1].sections) :
                  ContainsAnyCase(doc[1].sections[i].raw, query[1].arg)})

\* search("!B") has returned the second of two headings, whose raw holds
\* "!b", and not the first
C16_Witness ==
  /\ query # <<>>
  /\ query[1].name = "search"
  /\ query[1].arg = <<"!", "B">>
  /\ Len(doc[1].sections) = 2
  /\ query[1].result = <<doc[1].sections[2]>>
  /\ doc[1].sections[2].raw = <<"#", " ", "A", "!", "b">>

\* search("z") has returned nothing of a document of two sections
C16_WitnessNoMatch ==
  /\ query # <<>>
  /\ query[1].name = "search"
  /\ query[1].arg = <<"z">>
  /\ Len(doc[1].sections) = 2
  /\ query[1].result = <<>>

\* the step makes a query
QueryStep == query' # query

\* C17: byType(kind) returns exactly the sections of that kind in the order
\* of sections, so that byType of heading, code and table are the views
\* headings, codeBlocks and tables; and a query of any name leaves sections
\* and the ParsedDoc, its views included, as they were.
C17_ByTypeAndFrame ==
  [][QueryStep =>
       /\ sections' = sections
       /\ doc' = doc
       /\ query'[1].name = "byType" =>
            LET type == query'[1].arg[1]
                found == query'[1].result
            IN /\ IsFilterAt(found, doc[1].sections,
                             {i \in 1..Len(doc[1].sections) :
                                doc[1].sections[i].type = type})
               /\ type = "heading" => found = doc[1].headings
               /\ type = "code" => found = doc[1].codeBlocks
               /\ type = "table" => found = doc[1].tables]_vars

\* byType("heading") has returned the two headings of a document, in order
C17_Witness ==
  /\ query # <<>>
  /\ query[1].name = "byType"
  /\ query[1].arg = <<"heading">>
  /\ Len(doc[1].sections) = 2
  /\ doc[1].sections[1] # doc[1].sections[2]
  /\ query[1].result = doc[1].sections
  /\ sections = doc[1].sections

IsText(t) == t \in Seq(STRING)

IsTexts(ts) == /\ ts \in Seq(Seq(STRING))

\* v is null or one record of the given fields
IsOptional(v, fields) ==
  v = <<>> \/ (Len(v) = 1 /\ DOMAIN v[1] = fields)

\* the variables of parseMarkdown hold values of their declared types
StateDefined ==
  /\ pc \in {"parsing", "done", "failed"}
  /\ idx \in Nat
  /\ cellIndex \in Nat
  /\ inThead \in BOOLEAN
  /\ IsText(currentListItem)
  /\ IsTexts(currentRow)
  /\ IsOptional(currentHeading, {"level", "text"})
  /\ currentHeading # <<>> =>
       currentHeading[1].level \in 1..6 /\ IsText(currentHeading[1].text)
  /\ IsOptional(currentCode, {"lang", "code"})
  /\ currentCode # <<>> =>
       IsText(currentCode[1].lang) /\ IsText(currentCode[1].code)
  /\ IsOptional(currentTable, {"headers", "rows"})
  /\ currentTable # <<>> =>
       /\ IsTexts(currentTable[1].headers)
       /\ \A r \in 1..Len(currentTable[1].rows) : IsTexts(currentTable[1].rows[r])
  /\ IsOptional(currentList, {"ordered", "items"})
  /\ currentList # <<>> =>
       currentList[1].ordered \in BOOLEAN /\ IsTexts(currentList[1].items)
  /\ \A i \in 1..Len(sections) :
       /\ sections[i].type \in {"heading", "code", "table", "list", "content"}
       /\ IsText(sections[i].raw)

\* the handler of the open tag
OpenOf(tag) ==
  CASE tag \in HeadingTags -> OpenHeading /\ stack'[Len(stack')].tag = tag
    [] tag = "code" -> OpenCode
    [] tag = "pre" -> OpenPre
    [] tag = "table" -> OpenTable
    [] tag = "thead" -> OpenThead
    [] tag = "tbody" -> OpenTbody
    [] tag = "tr" -> OpenTr
    [] tag \in CellTags -> OpenCell /\ stack'[Len(stack')].tag = tag
    [] tag \in ListTags -> OpenList /\ stack'[Len(stack')].tag = tag
    [] tag = "li" -> OpenLi
    [] OTHER -> OpenP

\* the handler of the close tag
CloseOf(tag) ==
  CASE tag \in HeadingTags -> CloseHeading
    [] tag = "code" -> CloseCode
    [] tag = "pre" -> ClosePre
    [] tag = "table" -> CloseTable
    [] tag \in {"thead", "tbody", "th", "td"} -> CloseInert
    [] tag = "tr" -> CloseTr
    [] tag \in ListTags -> CloseList
    [] tag = "li" -> CloseLi
    [] OTHER -> CloseP

\* C18: whatever events have been delivered, well nested or not in the
\* order the element kinds expect, the state is defined; every event the
\* stream can deliver next has an outcome; when the stream ends parseMarkdown
\* returns, and what it returns is a ParsedDoc of the sections pushed.  No
\* call of parseMarkdown fails.
C18_Total ==
  /\ StateDefined
  /\ pc = "parsing" =>
       /\ \A tag \in TagsOf(family) : CanOpen(tag) => ENABLED OpenOf(tag)
       /\ (stack # <<>> /\ ~midText) => ENABLED CloseOf(Top.tag)
       /\ (stack # <<>> /\ texts < MaxTexts(family)
             /\ (family = "table" => Top.tag \in CellTags)) => ENABLED Text
       /\ (stack = <<>> /\ ~midText) => ENABLED Finish
  /\ pc = "done" =>
       /\ Len(doc) = 1
       /\ doc[1].sections = sections
       /\ doc[1].total = Len(sections)
  /\ pc = "failed" => opened = 0 /\ call.entry # "parseMarkdown"

\* a document of two elements, in which an li that holds text closed with no
\* list open, has been parsed to a ParsedDoc of no section
C18_WitnessItem ==
  /\ pc = "done"
  /\ family = "list"
  /\ opened = 2 /\ closed = 2
  /\ texts = 1
  /\ currentList = <<>> /\ currentListItem # <<>>
  /\ currentTable = <<>> /\ cellIndex = 0 /\ currentRow = <<>>
  /\ doc[1].total = 0

\* a document of a tr and a cell that holds text, with no table open, has
\* been parsed to a ParsedDoc of no section
C18_Witness ==
  /\ pc = "done"
  /\ family = "stray"
  /\ opened = 2 /\ closed = 2
  /\ currentTable = <<>>
  /\ currentRow = <<<<"a">>>> /\ cellIndex = 1
  /\ doc[1].total = 0

\* q stands in s at some position
ContainsText(s, q) ==
  \E i \in 0..Len(s) - Len(q) : SubSeq(s, i + 1, i + Len(q)) = q

\* parseMarkdown has not been called: no event was handled, nothing returned
NeverParsed ==
  /\ opened = 0 /\ closed = 0 /\ texts = 0
  /\ sections = <<>>
  /\ doc = <<>>

\* C19: parseFile of a path that does not exist fails with "File not found: "
\* and the path, and parseMarkdown is not called; fetchDocs of a response whose
\* status is outside 200..299 fails with an error that holds the url and the
\* status, and a rejected fetch fails with the error of the fetch; otherwise
\* parseFile returns a document whose source is the path and fetchDocs one
\* whose source is the url.  Only these entry points fail.
C19_EntryPoints ==
  /\ (pc \in {"done", "failed"} /\ call.entry = "parseFile") =>
       IF call.io = "missing"
       THEN /\ pc = "failed"
            /\ NeverParsed
            /\ error = <<<<"F", "i", "l", "e", " ", "n", "o", "t", " ", "f", "o", "u",
                           "n", "d", ":", " ">> \o call.arg[1]>>
       ELSE /\ pc = "done"
            /\ error = <<>>
            /\ doc[1].source = call.arg[1]
  /\ (pc \in {"done", "failed"} /\ call.entry = "fetchDocs") =>
       IF call.io = "rejected"
       THEN /\ pc = "failed"
            /\ NeverParsed
            /\ error = <<NetworkError>>
       ELSE IF call.status \notin 200..299
       THEN /\ pc = "failed"
            /\ NeverParsed
            /\ Len(error) = 1
            /\ ContainsText(error[1], call.arg[1])
            /\ ContainsText(error[1], NumStr(call.status))
       ELSE /\ pc = "done"
            /\ error = <<>>
            /\ doc[1].source = call.arg[1]
  /\ pc = "failed" => call.entry \in {"parseFile", "fetchDocs"}

\* fetchDocs has failed on a response of status 404
C19_Witness ==
  /\ pc = "failed"
  /\ call.entry = "fetchDocs"
  /\ call.status = 404
  /\ error = <<<<"F", "a", "i", "l", "e", "d", " ", "t", "o", " ", "f", "e", "t", "c",
                 "h", " ", "u", ":", " ", "4", "0", "4">>>>

\* parseFile has failed on a missing file
C19_WitnessMissing ==
  /\ pc = "failed"
  /\ call.entry = "parseFile"
  /\ error = <<<<"F", "i", "l", "e", " ", "n", "o", "t", " ", "f", "o", "u", "n", "d",
                 ":", " ", "f">>>>

\* parseFile and fetchDocs have returned a document of a file and of a page
C19_WitnessFile ==
  /\ pc = "done"
  /\ call.entry = "parseFile"
  /\ doc[1].source = <<"f">> /\ doc[1].title = <<"f">>

C19_WitnessPage ==
  /\ pc = "done"
  /\ call.entry = "fetchDocs"
  /\ call.status = 200
  /\ doc[1].source = <<"u">>

\* a call given the events an earlier call was given returns its sections
SameEventsSameSections ==
  (pc = "done" /\ first # <<>> /\ first[1].events = events) =>
    doc[1].sections = first[1].sections

\* every call begins in the state the first call began in
NothingKept ==
  (pc = "parsing" /\ events = <<>>) =>
    /\ sections = <<>> /\ idx = 0
    /\ currentHeading = <<>> /\ currentCode = <<>>
    /\ currentTable = <<>> /\ currentList = <<>>
    /\ currentRow = <<>> /\ currentListItem = <<>>
    /\ ~inThead /\ cellIndex = 0

\* C20: two calls of parseMarkdown that are given the same events return the
\* same sections, whatever calls were made before or between them, and no
\* state of a call outlives it.
C20_Deterministic ==
  /\ SameEventsSameSections
  /\ NothingKept

\* the first and the third call were given the same events and returned a
\* section; a call was made between them
C20_Witness ==
  /\ pc = "done"
  /\ calls = 2
  /\ first # <<>>
  /\ first[1].call = 0
  /\ first[1].events = events
  /\ Len(doc[1].sections) >= 1

\* C27: after the close tag of a ul or ol element no list is current, both
\* when a list section was pushed and when the list had no item and nothing
\* was pushed.
C27_IdleAfterList ==
  [][ListCloseStep => currentList' = <<>>]_vars

Headings == {i \in 1..Len(sections) : sections[i].type = "heading"}

\* g is written in a-z, 0-9 and '-', neither begins nor ends with '-' and
\* holds no two '-' in a row
IsSlug(g) ==
  /\ \A k \in 1..Len(g) : g[k] \in Lowers \cup Numerals \cup {"-"}
  /\ g # <<>> => g[1] # "-" /\ g[Len(g)] # "-"
  /\ \A k \in 1..Len(g) - 1 : ~(g[k] = "-" /\ g[k + 1] = "-")

\* C22: the slug of every heading section is written in a-z, 0-9 and '-',
\* has no '-' at either end and no two '-' in a row; two headings of the same
\* text have the same slug; the slug of a slug is that slug.
C22_Slug ==
  /\ \A i \in Headings :
       /\ IsSlug(sections[i].slug)
       /\ slugify(sections[i].slug) = sections[i].slug
  /\ \A i, j \in Headings :
       sections[i].text = sections[j].text => sections[i].slug = sections[j].slug

\* a heading whose text begins with a run of two marks and ends with a
\* hyphen has been emitted; its slug is "a"
C22_Witness ==
  /\ family = "slug"
  /\ Len(sections) = 1
  /\ sections[1].text = <<"-", "!", "A", "-">>
  /\ sections[1].slug = <<"a">>

\* two headings of the same text have been emitted
C22_WitnessSameText ==
  /\ Len(sections) = 2
  /\ Headings = {1, 2}
  /\ sections[1].text = sections[2].text
  /\ sections[1].text # <<>>
  /\ sections[1].slug # <<>>

\* the five kinds of accumulator, the tags of each, and its state
Accumulators == {"heading", "code", "table", "list", "paragraph"}

AccumulatorOf(tag) ==
  CASE tag \in HeadingTags -> "heading"
    [] tag \in {"pre", "code"} -> "code"
    [] tag \in {"table", "thead", "tbody", "tr", "th", "td"} -> "table"
    [] tag \in {"ul", "ol", "li"} -> "list"
    [] OTHER -> "paragraph"

\* the texts of the p elements that are open in st, outermost first
ParagraphTexts(st) ==
  LET ps == SelectSeq(st, LAMBDA f : f.tag = "p")
  IN [i \in 1..Len(ps) |-> ps[i].text]

\* the step leaves the accumulator of the kind as it is
AccumulatorUnchanged(kind) ==
  CASE kind = "heading" -> currentHeading' = currentHeading
    [] kind = "code" -> currentCode' = currentCode
    [] kind = "table" -> /\ currentTable' = currentTable /\ currentRow' = currentRow
                         /\ cellIndex' = cellIndex /\ inThead' = inThead
    [] kind = "list" -> currentList' = currentList /\ currentListItem' = currentListItem
    [] OTHER -> \/ ParagraphTexts(stack') = ParagraphTexts(stack)
                \/ /\ closed' = closed + 1 /\ Top.tag = "p"
                \/ /\ opened' = opened + 1 /\ stack'[Len(stack')].tag = "p"

\* the kinds the event of the step belongs to: the kind of the tag opened or
\* closed, and for a text chunk the kinds whose text handler it reaches
KindsOfStep ==
  IF pc # "parsing" THEN {}
  ELSE IF opened' = opened + 1 THEN {AccumulatorOf(stack'[Len(stack')].tag)}
  ELSE IF closed' = closed + 1 THEN {AccumulatorOf(Top.tag)}
  ELSE IF texts' = texts + 1
  THEN {k \in Accumulators :
          CASE k = "heading" -> HasOpen(HeadingTags)
            [] k = "code" -> HasOpenCode
            [] k = "table" -> HasOpen(CellTags)
            [] k = "list" -> HasOpen({"li"})
            [] OTHER -> HasOpen({"p"})}
  ELSE {}

\* C29: an open tag, a text chunk or a close tag of one kind leaves the
\* accumulators of the other kinds unchanged; a step that pushes a section
\* changes, of what the kinds share, the section list by that one section
\* and the counter by one, and no other step changes either.
C29_Independent ==
  [][/\ \A kind \in Accumulators \ KindsOfStep : AccumulatorUnchanged(kind)
     /\ IF sections' # sections
        THEN /\ Len(sections') = Len(sections) + 1
             /\ SubSeq(sections', 1, Len(sections)) = sections
             /\ sections'[Len(sections')].idx = idx
             /\ idx' = idx + 1
        ELSE idx' = idx]_vars

\* a code section has been emitted while a heading is open; the text
\* delivered to both is in the heading accumulator still
C29_Witness ==
  /\ Len(stack) = 1
  /\ stack[1].tag = "h1"
  /\ Len(sections) = 1
  /\ sections[1].type = "code"
  /\ currentHeading # <<>>
  /\ currentHeading[1].text # <<>>
  /\ currentHeading[1].text = stack[1].seen
  /\ currentCode = <<>>

\* the function of the extractor applied, and what it returned
Extracted(name) == query # <<>> /\ query[1].name = name

\* name is text without its characters of S
IsWithout(name, text, S) ==
  LET keep == {i \in 1..Len(text) : text[i] \notin S}
  IN /\ Len(name) = Cardinality(keep)
     /\ \A i \in keep : name[Cardinality({j \in keep : j <= i})] = text[i]

\* C23: extractComponents returns the empty list when the document has no
\* heading of level 1, and otherwise exactly one component, whose name is the
\* text of the first heading of level 1 without its white space and whose
\* slug is the slug of that heading.
C23_Components ==
  Extracted("extractComponents") =>
    /\ error = <<>>
    /\ IF LevelOnes(doc[1].sections) = {}
       THEN query[1].result = <<>>
       ELSE LET h == doc[1].sections[SetMin(LevelOnes(doc[1].sections))]
            IN /\ Len(query[1].result) = 1
               /\ IsWithout(query[1].result[1].name, h.text, Space)
               /\ query[1].result[1].slug = h.slug

\* the positions in secs of the code sections that are examples
ExamplePositions(secs) ==
  {i \in 1..Len(secs) :
     /\ secs[i].type = "code"
     /\ secs[i].lang \in {<<"t", "s", "x">>, <<"t", "s">>, <<"j", "s", "x">>, <<"j", "s">>}}

\* the k-th smallest member of a set of numbers
Nth(S, k) == CHOOSE i \in S : Cardinality({j \in S : j <= i}) = k

\* the title of the section at position i: the text of the nearest heading
\* before it, "Example" when there is none
TitleAt(secs, i) ==
  LET before == {j \in 1..i - 1 : secs[j].type = "heading"}
  IN IF before = {} THEN <<"E", "x", "a", "m", "p", "l", "e">>
     ELSE secs[SetMax(before)].text

\* C24: the examples of the component are the code blocks of language tsx,
\* ts, jsx or js, every one of them and in their order, each with the
\* language and code of its block and with the text of the nearest heading
\* before the block as title, "Example" when no heading precedes it.
C24_Examples ==
  (Extracted("extractComponents") /\ query[1].result # <<>>) =>
    LET secs == doc[1].sections
        at == ExamplePositions(secs)
        examples == query[1].result[1].examples
    IN /\ Len(examples) = Cardinality(at)
       /\ \A k \in 1..Len(examples) :
            /\ examples[k].lang = secs[Nth(at, k)].lang
            /\ examples[k].code = secs[Nth(at, k)].code
            /\ examples[k].title = TitleAt(secs, Nth(at, k))

\* the examples of a block that stands before every heading and of a block
\* that follows the heading "A b" have been extracted
C24_Witness ==
  /\ Extracted("extractComponents")
  /\ Len(query[1].result) = 1
  /\ Len(query[1].result[1].examples) = 2
  /\ query[1].result[1].examples[1].title = <<"E", "x", "a", "m", "p", "l", "e">>
  /\ query[1].result[1].examples[2].title = <<"A", " ", "b">>
  /\ doc[1].sections[2].type = "heading"

\* C25 as claimed: every code block extractCodeByLang(doc, lang) returns has
\* the language lang, and a language that no block has yields the empty list.
C25_ExactLang ==
  Extracted("extractCodeByLang") =>
    /\ \A i \in 1..Len(query[1].result) : query[1].result[i].lang = query[1].arg
    /\ (\A i \in 1..Len(doc[1].codeBlocks) : doc[1].codeBlocks[i].lang # query[1].arg)
         => query[1].result = <<>>

\* C25 as amended: extractCodeByLang(doc, lang) returns the code blocks whose
\* language is lang or begins with lang, every one of them and in their
\* order, so the empty list when lang begins the language of no block.
C25_PrefixLang ==
  Extracted("extractCodeByLang") =>
    LET secs == doc[1].sections
        at == {i \in 1..Len(secs) :
                 secs[i].type = "code" /\ HasPrefix(secs[i].lang, query[1].arg)}
    IN /\ Len(query[1].result) = Cardinality(at)
       /\ \A k \in 1..Len(query[1].result) : query[1].result[k] = secs[Nth(at, k)]

\* extractCodeByLang(doc, "ts") has returned a ts block and a tsx block
C25_Witness ==
  /\ Extracted("extractCodeByLang")
  /\ query[1].arg = <<"t", "s">>
  /\ Len(query[1].result) = 2
  /\ query[1].result[1].lang = <<"t", "s", "x">>
  /\ query[1].result[2].lang = <<"t", "s">>

\* extractCodeByLang(doc, "r") has returned nothing of a document of two
\* code blocks
C25_WitnessNone ==
  /\ Extracted("extractCodeByLang")
  /\ query[1].arg = <<"r">>
  /\ Len(doc[1].codeBlocks) = 2
  /\ query[1].result = <<>>

\* the key of the example of the section at position i
KeyAt(secs, i) ==
  IF secs[i].filename # <<>> /\ secs[i].filename[1] # <<>>
  THEN secs[i].filename[1]
  ELSE TitleAt(secs, i) \o <<".">> \o secs[i].lang

\* C26: extractSnippets returns a map with one entry for every key of an
\* example and no other entry; the key of an example is its filename when
\* it has one and "<title>.<lang>" otherwise, and the value of an entry is the
\* code of the last example of that key in document order.
C26_Snippets ==
  Extracted("extractSnippets") =>
    LET secs == doc[1].sections
        at == ExamplePositions(secs)
        snippets == query[1].result
    IN /\ \A a, b \in 1..Len(snippets) : snippets[a].key = snippets[b].key => a = b
       /\ {snippets[a].key : a \in 1..Len(snippets)} = {KeyAt(secs, i) : i \in at}
       /\ \A a \in 1..Len(snippets) :
            snippets[a].value =
              secs[SetMax({i \in at : KeyAt(secs, i) = snippets[a].key})].code

\* two examples of the key "Example.tsx" have left one entry with the code
\* of the second, next to the entry of an example with the filename "u.t"
C26_Witness ==
  /\ Extracted("extractSnippets")
  /\ Cardinality(ExamplePositions(doc[1].sections)) = 3
  /\ Len(query[1].result) = 2
  /\ \E a \in 1..2 :
       /\ query[1].result[a].key
            = <<"E", "x", "a", "m", "p", "l", "e", ".", "t", "s", "x">>
       /\ query[1].result[a].value = <<"w">>
       /\ doc[1].sections[3].code = <<"w">>
  /\ \E a \in 1..2 : query[1].result[a].key = <<"u", ".", "t">>

\* the columns of table t whose header is one of names in some letter case
ColumnsOf(t, names) ==
  {c \in 1..Len(t.headers) : toLowerCase(t.headers[c]) \in names}

\* the cell of row r of table t in its first column of names, empty when
\* the table has no such column
CellOf(t, r, names) ==
  IF ColumnsOf(t, names) = {} THEN <<>>
  ELSE t.rows[r][t.headers[SetMin(ColumnsOf(t, names))]]

PropNames == {<<"p", "r", "o", "p">>, <<"n", "a", "m", "e">>,
              <<"p", "r", "o", "p", "e", "r", "t", "y">>}

\* the rows that are props: <<position of the table, number of the row>>
PropRows(secs) ==
  UNION {{<<i, r>> : r \in {n \in 1..Len(secs[i].rows) :
                              CellOf(secs[i], n, PropNames) # <<>>}} :
           i \in {j \in 1..Len(secs) :
                    /\ secs[j].type = "table"
                    /\ ColumnsOf(secs[j], PropNames) # {}
                    /\ ColumnsOf(secs[j], {<<"t", "y", "p", "e">>}) # {}}}

\* C30: the props of the component are, in document order, one prop for
\* every row with a non-empty name cell of every table that has a name column
\* (Prop, Name or Property in any letter case) and a Type column (in any
\* letter case): its name and type are the cells without backticks, and its
\* default is absent exactly when the Default cell is empty.  Tables without
\* both columns add no prop.
C30_Props ==
  (Extracted("extractComponents") /\ query[1].result # <<>>) =>
    LET secs == doc[1].sections
        rows == PropRows(secs)
        props == query[1].result[1].props
        rank(p) == Cardinality({q \in rows :
                      q[1] < p[1] \/ (q[1] = p[1] /\ q[2] <= p[2])})
    IN /\ Len(props) = Cardinality(rows)
       /\ \A p \in rows :
            /\ IsWithout(props[rank(p)].name,
                         CellOf(secs[p[1]], p[2], PropNames), {"~"})
            /\ IsWithout(props[rank(p)].type,
                         CellOf(secs[p[1]], p[2], {<<"t", "y", "p", "e">>}), {"~"})
            /\ (props[rank(p)].default = <<>>)
                 <=> (CellOf(secs[p[1]], p[2], {<<"d", "e", "f", "a", "u", "l", "t">>}) = <<>>)

\* the call that is running has returned what the call that ran alone
\* returned
SameAsAlone(c) ==
  (c.pc = "done" /\ c.events = first[1].events) =>
    /\ c.doc[1].sections = first[1].sections
    /\ c.doc[1].sections # <<>> => c.doc[1].sections[1].idx = 0

\* C21: of two calls of parseMarkdown in flight together, whose handlers run
\* in any order, each returns the sections, with the indices from 0 on, that
\* a call given the same events returns when it runs alone.
C21_Interleaved ==
  other # <<>> => SameAsAlone(Running) /\ SameAsAlone(other[1].suspended)

\* the running call has returned the two sections of the call that ran
\* alone; it was given events before and after the other call was given
\* some, and the other call has a heading open with the text "a"
C21_Witness ==
  /\ other # <<>>
  /\ pc = "done"
  /\ events = first[1].events
  /\ Len(doc[1].sections) = 2
  /\ other[1].resumedMid
  /\ other[1].gave
  /\ other[1].suspended.pc = "parsing"
  /\ other[1].suspended.stack # <<>>
  /\ other[1].suspended.currentHeading # <<>>
  /\ other[1].suspended.currentHeading[1].text = <<"a">>

\* the number of lines of text, and its line k
LineCount(text) == Cardinality({i \in 1..Len(text) : text[i] = "\n"}) + 1
LineOf(text, k) ==
  LET breaks == {i \in 1..Len(text) : text[i] = "\n"}
      from == IF k = 1 THEN 1 ELSE Nth(breaks, k - 1) + 1
      to == IF k > Cardinality(breaks) THEN Len(text) ELSE Nth(breaks, k) - 1
  IN SubSeq(text, from, to)

\* C31: the text generateTypes returns has a line "export interface
\* <Name>Props {" exactly when the component has a prop; then its last line
\* is "}", and the lines between the two that are no comment are one field
\* for every prop, in the order of the props: "  <name>: <type>;" for a prop
\* without default and "  <name>?: <type>;" for a prop with a default.
C31_Types ==
  Extracted("generateTypes") =>
    LET component == query[1].arg
        text == query[1].result
        n == LineCount(text)
        opening == <<"e", "x", "p", "o", "r", "t", " ", "i", "n", "t", "e", "r", "f", "a", "c", "e", " ">>
                     \o component.name \o <<"P", "r", "o", "p", "s", " ", "{">>
        at == {k \in 1..n : LineOf(text, k) = opening}
    IN /\ (at # {}) <=> (Len(component.props) > 0)
       /\ at # {} =>
            LET fields == {k \in (SetMin(at) + 1)..(n - 1) :
                             ~HasPrefix(LineOf(text, k), <<" ", " ", "/", "*", "*">>)}
            IN /\ LineOf(text, n) = <<"}">>
               /\ Cardinality(fields) = Len(component.props)
               /\ \A j \in 1..Len(component.props) :
                    LineOf(text, Nth(fields, j)) =
                      <<" ", " ">> \o component.props[j].name
                        \o (IF component.props[j].default # <<>> THEN <<"?">> ELSE <<>>)
                        \o <<":", " ">> \o component.props[j].type \o <<";">>

\* the types of the component Ab have been generated: a required field a
\* with its comment and an optional field e
C31_Witness ==
  /\ Extracted("generateTypes")
  /\ Len(query[1].arg.props) = 2
  /\ query[1].arg.props[1].default = <<>>
  /\ query[1].arg.props[2].default = <<<<"d">>>>
  /\ query[1].result =
       <<"/", "/", " ", "A", "u", "t", "o", "-", "g", "e", "n", "e", "r",
       "a", "t", "e", "d", " ", "t", "y", "p", "e", "s", " ", "f", "o",
       "r", " ", "A", "b", "\n", "\n", "e", "x", "p", "o", "r", "t", " ",
       "i", "n", "t", "e", "r", "f", "a", "c", "e", " ", "A", "b", "P",
       "r", "o", "p", "s", " ", "{", "\n", " ", " ", "/", "*", "*", " ",
       "D", " ", "*", "/", "\n", " ", " ", "a", ":", " ", "T", ";", "\n",
       " ", " ", "e", "?", ":", " ", "V", ";", "\n", "}">>

\* the step delivers the open tag of a list while a list is open
NestedListOpenStep ==
  /\ pc = "parsing"
  /\ HasOpen(ListTags)
  /\ opened' = opened + 1
  /\ stack'[Len(stack')].tag \in ListTags

\* the step delivers the close tag of an li element
ItemCloseStep ==
  /\ pc = "parsing"
  /\ stack # <<>>
  /\ Top.tag = "li"
  /\ closed' = closed + 1

\* the list on top of the stack stands in another list
InnerList == \E i \in 1..Len(stack) - 1 : stack[i].tag \in ListTags

====
